---- MODULE Spec2Model ----
(***************************************************************************)
(* Model of pylablib's device communication backends                       *)
(* (pylablib/core/devio/comm_backend.py) and of the Thorlabs serial        *)
(* adapters built on them.                                                 *)
(*                                                                         *)
(* Byte strings are sequences over a small alphabet of one-character       *)
(* strings: "r" stands for CR, "n" for LF, "a" for an ordinary data byte.  *)
(* The Python value None is the string "None".                             *)
(*                                                                         *)
(* The module holds several specifications, one per part of the program:   *)
(*   SpecTerm    remove_longest_term as a pure function                    *)
(*   SpecLine    readline / read_multichar_term over a pending byte stream *)
(*   SpecTimeout set_timeout, get_timeout and nested using_timeout blocks   *)
(*   SpecSerial  the serial backend's open/close and single_op scopes, one  *)
(*               step per scope entry, transport operation and scope exit   *)
(*   SpecOps     each backend's open, close, set_timeout, read, readline    *)
(*               and write as the sequence of transport operations and      *)
(*               cooldowns the call makes                                   *)
(*   SpecCool    setup_cooldown and the cooldown table                      *)
(*   SpecConn    _conn_to_dict and combine_conn                             *)
(*   SpecDetect  autodetect_backend over strings, tuples and dicts          *)
(*   SpecFactory _as_backend, new_backend and list_backend_resources over   *)
(*               the registry left by the imports; tuples stand for the     *)
(*               (kind, params) pairs and the connection tuples              *)
(*   SpecRead    read, readline and read_multichar_term of every backend,   *)
(*               with the length and the type of the value returned         *)
(*   SpecCtor    the constructors: opening the transport, the network       *)
(*               address, and the error a failure is reported as            *)
(*   SpecWrite   write of the serial and ft232 backends as the calls made   *)
(*   SpecLock    lock, unlock and locking of the visa backend               *)
(*   SpecOwn     the cooldown tables as dict objects named by the class     *)
(*               and by each instance, and cooldown's lookup                *)
(*   SpecSeq     readline called again and again on one transport          *)
(*   SpecRetry   the serial port's opening and its retries                  *)
(*   SpecParams  the connection parameters each constructor stores          *)
(*   SpecWheel   set_position of the Thorlabs filter wheel                  *)
(* SpecLineFair is SpecLine with weak fairness of its steps.               *)
(* Each specification moves only its own group of variables; the other     *)
(* groups stay at their idle values.                                       *)
(***************************************************************************)
EXTENDS Integers, Sequences, FiniteSets, TLC

VARIABLES
    \* SpecTerm: the input and the result of remove_longest_term
    t_pc, t_msg, t_terms, t_res,
    \* SpecLine: one backend reading lines from its transport
    l_backend,      \* "serial", "ft232", "pyusb" or "network"
    l_term_read,    \* self.term_read, a list of terminators
    l_stream,       \* bytes the transport will deliver before it times out
    l_pc,           \* "idle", "loop" (inside readline's while), "returned", "raised"
    l_call,         \* the arguments of the current call
    l_result,       \* the value the last call returned
    l_empties,      \* how the initial stream was built: the bare terminators,
    l_line,         \*   the bytes of the line that follows them
    l_lineterm,     \*   and what ends it (<<>>: the line is cut off)
    \* SpecTimeout: one backend's timeout
    to_backend,     \* "visa", "serial", "ft232", "network" or "pyusb"
    to_stored,      \* what the transport holds: instr.timeout, the socket's
                    \*   timeout, or PyUSBDeviceBackend.timeout
    to_blocks,      \* the using_timeout blocks entered and not yet left
    to_last,        \* the last call: its name, argument and what it did
    \* SpecSerial: one SerialDeviceBackend and the calls in progress on it
    s_coo,          \* _connect_on_operation
    s_opened,       \* self.opened
    s_stack,        \* _opened_stack
    s_port,         \* whether the pyserial port (self.instr) is open
    s_frames,       \* the calls and with-blocks in progress, innermost last
    s_exc,          \* an exception is propagating out of the innermost frame
    s_ev,           \* what the last step did to the port
    s_prev,         \* _opened_stack before the last step
    s_ret,          \* the last call that ended: how, and _opened_stack
                    \*   before it began and after it ended
    s_opens,        \* port opens and closes since the outermost call or
    s_closes,       \*   with-block in progress began
    \* SpecOps: one backend and the transport operations and cooldowns of
    \* its last call
    o_backend,      \* "visa", "serial", "ft232", "network" or "pyusb"
    o_coo,          \* _connect_on_operation (serial only)
    o_opened,       \* is_opened()
    o_ctimeout,     \* the timeout the constructor was given
    o_stored,       \* what the transport holds as its timeout
    o_call,         \* the last call: its name, its timeout argument and
                    \*   whether it returned or raised
    o_log,          \* what the last call did, in order: "t:K" a transport
                    \*   operation of kind K, "cd:K" a call of cooldown(K)
    \* SpecCool: the cooldown table
    c_table,        \* _operation_cooldown, a map from kinds to seconds
    c_pc,           \* "init" or "called"
    c_kwargs,       \* the keyword arguments of the last setup_cooldown
    c_prev,         \* _operation_cooldown before that call
    \* SpecConn: one combine_conn call
    k_cls,          \* the backend class it is called on
    k_conn1,        \* the two argument objects, as they are now
    k_conn2,
    k_arg1,         \* the two arguments as they were passed
    k_arg2,
    k_res,          \* the dictionary returned
    k_pc,           \* "init" or "done"
    \* SpecDetect: one autodetect_backend call
    d_conn,         \* the connection it is given
    d_default,      \* the default kind it is given
    d_res,          \* the kind returned, or "raised"
    d_pc,           \* "init" or "done"
    \* SpecFactory: the registry and one new_backend or
    \* list_backend_resources call
    f_registry,     \* the keys of _backends
    f_opened,       \* is_opened() of the backend instance a caller holds
    f_call,         \* the call: its name and arguments
    f_res,          \* how it ended and what it returned
    f_pc,           \* "init" or "done"
    \* SpecRead: one backend and one read call on it
    r_backend,      \* the class of the backend
    r_datatype,     \* self.datatype: "auto", "str" or "bytes"
    r_check,        \* self.check_read_size (pyusb)
    r_term_read,    \* self.term_read, a list of terminators
    r_stream,       \* bytes the transport delivers before it times out
    r_call,         \* the call made and its arguments
    r_res,          \* how the call ended
    r_pc,           \* "init", "done"; "off" outside SpecRead
    \* SpecCtor: the transport's state and one constructor call
    x_fails,        \* the transport library's open or connect raises its error
    x_found,        \* how many usb devices match the vendor and product IDs
    x_call,         \* the class constructed and its conn argument
    x_res,          \* how the constructor ended
    x_pc,           \* "init", "done"; "off" outside SpecCtor
    \* SpecWrite: a serial or ft232 backend and one write call
    w_backend,      \* "serial" or "ft232"
    w_term_write,   \* self.term_write
    w_call,         \* the arguments of the write call
    w_log,          \* the transport calls, cooldowns and readline calls made
    w_res,          \* "returned" or "raised"
    w_pc,           \* "init", "done"; "off" outside SpecWrite
    \* SpecLock: a visa backend and its lock, unlock and locking calls
    v_do_lock,      \* self._do_lock
    v_old,          \* the pyvisa version is older than 1.6
    v_frames,       \* how many frames of lock or unlock are on the call stack
    v_ctx,          \* the contexts of the locking() blocks entered
    v_call,         \* the last call, how it ended, the session calls it made
    v_log,          \* the session's lock and unlock calls so far
    v_pc,           \* "idle", "lock", "unlock"; "off" outside SpecLock
    \* SpecOwn: the dict objects that hold cooldown tables
    h_heap,         \* the dict objects by identity; <<>> where none lives
    h_refs,         \* the object each instance's _operation_cooldown names
    h_call,         \* the last call and what it did
    \* SpecSeq: readline calls one after another on one transport
    q_backend,      \* "serial", "ft232" or "pyusb"
    q_term_read,    \* self.term_read, a list with at least one terminator
    q_pending,      \* the bytes pending on the transport before the first call
    q_stream,       \* the bytes still pending
    q_results,      \* what the calls so far returned, oldest first
    q_call,         \* the last call: its arguments, the bytes pending before
                    \*   it, how it ended, and whether every call so far had
                    \*   remove_term and skip_empty off (plain)
    \* SpecRetry: one transport open of the serial backend
    a_site,         \* where the port is opened: "init", "open" or "scope"
    a_retry,        \* open_retry_times
    a_failures,     \* how many times in a row the port will refuse to open
    a_attempts,     \* instr.open calls made
    a_pc,           \* "call", then "opened" or "failed"
    \* SpecParams: one constructor call and the connection parameters
    p_cls,          \* the backend class
    p_fails,        \* whether the transport refuses to open
    p_arg,          \* the conn object the caller passes, as it was
    p_obj,          \* the same object as it is now
    p_res,          \* how the constructor ended and self.conn
    p_pc,           \* "init" or "done"
    \* SpecWheel: a Thorlabs filter wheel and its set_position calls
    fw_pcount,        \* self.pcount
    fw_respect_bound, \* self.respect_bound
    fw_call,          \* the last call: the position read and the target
    fw_written        \* the positions that call wrote, in order

termVars == <<t_pc, t_msg, t_terms, t_res>>

lineVars == <<l_backend, l_term_read, l_stream, l_pc, l_call, l_result,
              l_empties, l_line, l_lineterm>>

timeoutVars == <<to_backend, to_stored, to_blocks, to_last>>

serialVars == <<s_coo, s_opened, s_stack, s_port, s_frames, s_exc, s_ev, s_prev,
                s_ret, s_opens, s_closes>>

opsVars == <<o_backend, o_coo, o_opened, o_ctimeout, o_stored, o_call, o_log>>

coolVars == <<c_table, c_pc, c_kwargs, c_prev>>

connVars == <<k_cls, k_conn1, k_conn2, k_arg1, k_arg2, k_res, k_pc>>

detectVars == <<d_conn, d_default, d_res, d_pc>>

factoryVars == <<f_registry, f_opened, f_call, f_res, f_pc>>

readVars == <<r_backend, r_datatype, r_check, r_term_read, r_stream, r_call,
              r_res, r_pc>>

ctorVars == <<x_fails, x_found, x_call, x_res, x_pc>>

writeVars == <<w_backend, w_term_write, w_call, w_log, w_res, w_pc>>

lockVars == <<v_do_lock, v_old, v_frames, v_ctx, v_call, v_log, v_pc>>

ownVars == <<h_heap, h_refs, h_call>>

seqVars == <<q_backend, q_term_read, q_pending, q_stream, q_results, q_call>>

retryVars == <<a_site, a_retry, a_failures, a_attempts, a_pc>>

paramVars == <<p_cls, p_fails, p_arg, p_obj, p_res, p_pc>>

wheelVars == <<fw_pcount, fw_respect_bound, fw_call, fw_written>>

vars == <<termVars, lineVars, timeoutVars, serialVars, opsVars, coolVars,
         connVars, detectVars, factoryVars, readVars, ctorVars, writeVars,
         lockVars, ownVars, seqVars, retryVars, paramVars, wheelVars>>

None == "None"

\* Python's None where a number may stand too: a timeout that is not finite.
\* Times are fixed-point numbers counting thousandths of a second.
NoneT == -1

-----------------------------------------------------------------------------
(* Bounds of the model *)

\* longest message handed to remove_longest_term
MaxMsgLen == 3
\* longest terminator list
MaxTerms == 2
\* most bare terminators (empty lines) at the head of a stream
MaxEmpty == 2
\* longest line body in a stream
MaxLine == 2
\* deepest nesting of using_timeout blocks
MaxUsing == 2
\* deepest nesting of the caller's own single_op blocks
MaxNest == 2
\* most echo lines a write reads back
MaxEchoLines == 2
\* the most transport reads one _read_terms makes
MaxReads == 2
\* the longest tuple of connection parameters
MaxConnLen == 2
\* the most characters that follow the head of an address string
MaxTail == 2
\* the most bytes the transport delivers before it times out
MaxStream == 3
\* the largest size a read asks for
MaxSize == 3
\* the longest address string given to the network backend
MaxAddrLen == 3
\* the most usb devices found, and the largest device index asked for
MaxDevices == 2
\* the longest data handed to write
MaxData == 2
\* the most frames the interpreter lets a call stack hold
RecursionLimit == 3
\* the most session lock and unlock calls followed
MaxLockCalls == 3
\* the most backend instances alive at once
MaxInstances == 2
\* the most bytes pending on a transport read line by line
MaxPending == 3
\* the most readline calls made one after another
MaxReadlines == 2
\* the largest open_retry_times
MaxRetry == 4
\* the most times in a row a port refuses to open
MaxFailures == 4

-----------------------------------------------------------------------------
(* Byte strings *)

Bytes == {"a", "r", "n"}

\* all sequences over S of length lo..hi
SeqsOf(S, lo, hi) == UNION {[1..k -> S] : k \in lo..hi}

\* bytes.endswith
EndsWith(s, t) ==
    /\ Len(t) <= Len(s)
    /\ SubSeq(s, Len(s) - Len(t) + 1, Len(s)) = t

\* Python's s[:-k] for k >= 0: since -0 = 0, s[:-0] is s[:0], the empty string
SliceOffEnd(s, k) ==
    IF k = 0 THEN <<>> ELSE SubSeq(s, 1, Len(s) - k)

Max(a, b) == IF a >= b THEN a ELSE b

Empty == <<>>
LF == <<"n">>
CR == <<"r">>
CRLF == <<"r", "n">>

\* the terminators a backend may be configured with: "", LF, CR, CR LF
TermChoices == {Empty, LF, CR, CRLF}

-----------------------------------------------------------------------------
(* Idle values: what a group of variables holds under the specifications    *)
(* that do not use it                                                       *)

TermIdle ==
    /\ t_pc = "off"
    /\ t_msg = <<>>
    /\ t_terms = <<>>
    /\ t_res = <<>>

LineIdle ==
    /\ l_backend = None
    /\ l_term_read = <<>>
    /\ l_stream = <<>>
    /\ l_pc = "off"
    /\ l_call = None
    /\ l_result = <<>>
    /\ l_empties = <<>>
    /\ l_line = <<>>
    /\ l_lineterm = <<>>

TimeoutIdle ==
    /\ to_backend = None
    /\ to_stored = NoneT
    /\ to_blocks = <<>>
    /\ to_last = [op |-> "off"]

SerialIdle ==
    /\ s_coo = FALSE
    /\ s_opened = FALSE
    /\ s_stack = 0
    /\ s_port = FALSE
    /\ s_frames = <<>>
    /\ s_exc = FALSE
    /\ s_ev = "off"
    /\ s_prev = 0
    /\ s_ret = [kind |-> "off"]
    /\ s_opens = 0
    /\ s_closes = 0

OpsIdle ==
    /\ o_backend = None
    /\ o_coo = FALSE
    /\ o_opened = FALSE
    /\ o_ctimeout = NoneT
    /\ o_stored = NoneT
    /\ o_call = [op |-> "off", status |-> "off", timeout |-> NoneT]
    /\ o_log = <<>>

CoolIdle ==
    /\ c_table = <<>>
    /\ c_pc = "off"
    /\ c_kwargs = <<>>
    /\ c_prev = <<>>

ConnIdle ==
    /\ k_cls = None
    /\ k_conn1 = None
    /\ k_conn2 = None
    /\ k_arg1 = None
    /\ k_arg2 = None
    /\ k_res = <<>>
    /\ k_pc = "off"

DetectIdle ==
    /\ d_conn = None
    /\ d_default = None
    /\ d_res = None
    /\ d_pc = "off"

FactoryIdle ==
    /\ f_registry = {}
    /\ f_opened = FALSE
    /\ f_call = [fn |-> "off"]
    /\ f_res = [status |-> "off"]
    /\ f_pc = "off"

ReadIdle ==
    /\ r_backend = None
    /\ r_datatype = None
    /\ r_check = FALSE
    /\ r_term_read = <<>>
    /\ r_stream = <<>>
    /\ r_call = [op |-> "off"]
    /\ r_res = [status |-> "off"]
    /\ r_pc = "off"

CtorIdle ==
    /\ x_fails = FALSE
    /\ x_found = 0
    /\ x_call = [cls |-> "off"]
    /\ x_res = [status |-> "off"]
    /\ x_pc = "off"

WriteIdle ==
    /\ w_backend = None
    /\ w_term_write = <<>>
    /\ w_call = [op |-> "off"]
    /\ w_log = <<>>
    /\ w_res = "off"
    /\ w_pc = "off"

LockIdle ==
    /\ v_do_lock = FALSE
    /\ v_old = FALSE
    /\ v_frames = 0
    /\ v_ctx = <<>>
    /\ v_call = [op |-> "off"]
    /\ v_log = <<>>
    /\ v_pc = "off"

OwnIdle ==
    /\ h_heap = <<>>
    /\ h_refs = <<>>
    /\ h_call = [op |-> "off"]

SeqIdle ==
    /\ q_backend = "off"
    /\ q_term_read = <<>>
    /\ q_pending = <<>>
    /\ q_stream = <<>>
    /\ q_results = <<>>
    /\ q_call = [op |-> "off"]

RetryIdle ==
    /\ a_site = "off"
    /\ a_retry = 0
    /\ a_failures = 0
    /\ a_attempts = 0
    /\ a_pc = "off"

ParamsIdle ==
    /\ p_cls = "off"
    /\ p_fails = FALSE
    /\ p_arg = <<>>
    /\ p_obj = <<>>
    /\ p_res = <<>>
    /\ p_pc = "off"

WheelIdle ==
    /\ fw_pcount = 0
    /\ fw_respect_bound = FALSE
    /\ fw_call = [op |-> "off", cur |-> 0, pos |-> 0]
    /\ fw_written = <<>>

-----------------------------------------------------------------------------
(* remove_longest_term *)

\* the loop of remove_longest_term: tcs after the terms from index i on
RECURSIVE LongestTermLoop(_, _, _, _)
LongestTermLoop(msg, terms, i, tcs) ==
    IF i > Len(terms) THEN tcs
    ELSE LongestTermLoop(msg, terms, i + 1,
            IF EndsWith(msg, terms[i]) THEN Max(tcs, Len(terms[i])) ELSE tcs)

\* a first-match variant: stops at the first configured terminator that matches
RECURSIVE FirstTermLoop(_, _, _, _)
FirstTermLoop(msg, terms, i, tcs) ==
    IF i > Len(terms) THEN tcs
    ELSE IF EndsWith(msg, terms[i]) /\ Len(terms[i]) > 0 THEN Len(terms[i])
    ELSE FirstTermLoop(msg, terms, i + 1, tcs)

remove_first_term(msg, terms) ==
    SliceOffEnd(msg, FirstTermLoop(msg, terms, 1, 0))

remove_longest_term(msg, terms) ==
    SliceOffEnd(msg, LongestTermLoop(msg, terms, 1, 0))

-----------------------------------------------------------------------------
(* Line assembly: _read_terms of the serial, ft232 and pyusb backends *)

Min(a, b) == IF a <= b THEN a ELSE b

\* instr.read(n) on a transport holding `stream`: up to n bytes, fewer (or
\* none) when the transport times out first
TakeN(stream, n) == SubSeq(stream, 1, Min(n, Len(stream)))
DropN(stream, n) == SubSeq(stream, Min(n, Len(stream)) + 1, Len(stream))

\* block sizes of a read without terminators
SerialBlock == 8
UsbBlock == 65536

\* singlechar_terms=all(len(t)==1 for t in terms)
SingleCharTerms(terms) == \A i \in 1..Len(terms) : Len(terms[i]) = 1

\* the test with a fast path that looks for the first terminator alone
TermSeenFirstOnly(terms, c, result) ==
    IF SingleCharTerms(terms)
    THEN terms # <<>> /\ c = terms[1]
    ELSE \E i \in 1..Len(terms) : EndsWith(result, terms[i])

\* the test after each chunk: membership of the chunk when every terminator
\* is one byte long, suffix match of the accumulated result otherwise
TermSeen(terms, c, result) ==
    IF SingleCharTerms(terms)
    THEN \E i \in 1..Len(terms) : c = terms[i]
    ELSE \E i \in 1..Len(terms) : EndsWith(result, terms[i])

ReadOutcome(raised, res, rest) == [raised |-> raised, res |-> res, rest |-> rest]

\* the loop raising its timeout error with or without terminators
RECURSIVE SerialReadLoopRaises(_, _, _, _)
SerialReadLoopRaises(terms, stream, result, error_on_timeout) ==
    LET n == IF terms # <<>> THEN 1 ELSE SerialBlock
        c == TakeN(stream, n)
        rest == DropN(stream, n)
        res == result \o c
    IN  IF c = <<>>
        THEN ReadOutcome(error_on_timeout, res, rest)
        ELSE IF TermSeen(terms, c, res)
             THEN ReadOutcome(FALSE, res, rest)
             ELSE SerialReadLoopRaises(terms, rest, res, error_on_timeout)

\* the loop reading two bytes at a time while it looks for a terminator
RECURSIVE SerialReadLoopByTwo(_, _, _, _)
SerialReadLoopByTwo(terms, stream, result, error_on_timeout) ==
    LET n == IF terms # <<>> THEN 2 ELSE SerialBlock
        c == TakeN(stream, n)
        rest == DropN(stream, n)
        res == result \o c
    IN  IF c = <<>>
        THEN ReadOutcome(error_on_timeout /\ terms # <<>>, res, rest)
        ELSE IF TermSeen(terms, c, res)
             THEN ReadOutcome(FALSE, res, rest)
             ELSE SerialReadLoopByTwo(terms, rest, res, error_on_timeout)

\* SerialDeviceBackend._read_terms from the point where `result` is accumulated
RECURSIVE SerialReadLoop(_, _, _, _)
SerialReadLoop(terms, stream, result, error_on_timeout) ==
    LET n == IF terms # <<>> THEN 1 ELSE SerialBlock
        c == TakeN(stream, n)
        rest == DropN(stream, n)
        res == result \o c
    IN  IF c = <<>>
        THEN ReadOutcome(error_on_timeout /\ terms # <<>>, res, rest)
        ELSE IF TermSeen(terms, c, res)
             THEN ReadOutcome(FALSE, res, rest)
             ELSE SerialReadLoop(terms, rest, res, error_on_timeout)

SerialReadTerms(terms, stream, error_on_timeout) ==
    SerialReadLoop(terms, stream, <<>>, error_on_timeout)

\* FT232DeviceBackend._read_terms: the same loop over the ft232 transport
FT232ReadTerms(terms, stream, error_on_timeout) ==
    SerialReadLoop(terms, stream, <<>>, error_on_timeout)

\* PyUSBDeviceBackend._read_terms: returns the first block when no terminator
\* is configured
RECURSIVE PyUSBReadLoop(_, _, _, _)
PyUSBReadLoop(terms, stream, result, error_on_timeout) ==
    LET n == IF terms # <<>> THEN 1 ELSE UsbBlock
        c == TakeN(stream, n)
        rest == DropN(stream, n)
        res == result \o c
    IN  IF c = <<>>
        THEN ReadOutcome(error_on_timeout /\ terms # <<>>, res, rest)
        ELSE IF terms = <<>> \/ TermSeen(terms, c, res)
             THEN ReadOutcome(FALSE, res, rest)
             ELSE PyUSBReadLoop(terms, rest, res, error_on_timeout)

PyUSBReadTerms(terms, stream, error_on_timeout) ==
    PyUSBReadLoop(terms, stream, <<>>, error_on_timeout)

\* net.ClientSocket.recv_delimiter(delim, strict=True): receives byte by byte
\* until the buffer ends with a delimiter; a missing delimiter is an error
RECURSIVE RecvDelimiterLoop(_, _, _)
RecvDelimiterLoop(delim, stream, buf) ==
    LET c == TakeN(stream, 1)
        rest == DropN(stream, 1)
        res == buf \o c
    IN  IF c = <<>>
        THEN ReadOutcome(TRUE, res, rest)
        ELSE IF \E i \in 1..Len(delim) : EndsWith(res, delim[i])
             THEN ReadOutcome(FALSE, res, rest)
             ELSE RecvDelimiterLoop(delim, rest, res)

RecvDelimiter(delim, stream) == RecvDelimiterLoop(delim, stream, <<>>)

\* the terminator-bounded read each backend's readline and
\* read_multichar_term start with
ReadUntilTerm(backend, terms, stream, error_on_timeout) ==
    CASE backend = "serial"  -> SerialReadTerms(terms, stream, error_on_timeout)
      [] backend = "ft232"   -> FT232ReadTerms(terms, stream, error_on_timeout)
      [] backend = "pyusb"   -> PyUSBReadTerms(terms, stream, error_on_timeout)
      [] backend = "network" -> RecvDelimiter(terms, stream)

-----------------------------------------------------------------------------
(* SpecLine: readline and read_multichar_term *)

LineBackends == {"serial", "ft232", "pyusb", "network"}

\* bytes of a line body
LineBytes == {"a", "r"}

RECURSIVE Concat(_)
Concat(ss) == IF ss = <<>> THEN <<>> ELSE Head(ss) \o Concat(Tail(ss))

\* the terminator lists a backend is configured with: none, single bytes,
\* CR LF, lists where one terminator ends or begins another, and lists
\* holding the empty string
ReadTermLists ==
    { <<>>,
      <<LF>>, <<CRLF>>, <<CR, LF>>,
      <<LF, CRLF>>, <<CRLF, LF>>, <<CR, CRLF>>,
      <<Empty>>, <<LF, Empty>> }

\* the elements of a list
Elems(s) == {s[i] : i \in 1..Len(s)}

\* a backend with any small terminator list; the transport holds some bare
\* terminators, then a line body, then a terminator or nothing
LineInit ==
    /\ l_backend \in LineBackends
    /\ l_term_read \in ReadTermLists
    /\ l_empties \in SeqsOf(Elems(l_term_read), 0, MaxEmpty)
    /\ l_line \in SeqsOf(LineBytes, 0, MaxLine)
    /\ l_lineterm \in Elems(l_term_read) \cup {<<>>}
    /\ l_stream = Concat(l_empties) \o l_line \o l_lineterm
    /\ l_pc = "idle"
    /\ l_call = [op |-> "none", terms |-> <<>>, remove_term |-> FALSE,
                 skip_empty |-> FALSE, error_on_timeout |-> FALSE]
    /\ l_result = <<>>

\* the network backend's reads take no error_on_timeout argument
ErrorOnTimeoutChoices(backend) ==
    IF backend = "network" THEN {TRUE} ELSE BOOLEAN

\* readline(remove_term, skip_empty, error_on_timeout) is called
CallReadline(remove_term, skip_empty, error_on_timeout) ==
    /\ l_pc = "idle"
    /\ l_call' = [op |-> "readline", terms |-> l_term_read,
                  remove_term |-> remove_term, skip_empty |-> skip_empty,
                  error_on_timeout |-> error_on_timeout]
    /\ l_pc' = "loop"
    /\ l_result' = <<>>
    /\ UNCHANGED <<l_backend, l_term_read, l_stream, l_empties, l_line, l_lineterm>>

\* read_multichar_term(term, remove_term, error_on_timeout) is called
CallReadMulticharTerm(term, remove_term, error_on_timeout) ==
    /\ l_pc = "idle"
    /\ l_call' = [op |-> "read_multichar_term", terms |-> term,
                  remove_term |-> remove_term, skip_empty |-> FALSE,
                  error_on_timeout |-> error_on_timeout]
    /\ l_pc' = "loop"
    /\ l_result' = <<>>
    /\ UNCHANGED <<l_backend, l_term_read, l_stream, l_empties, l_line, l_lineterm>>

\* readline's pass without the skip_empty retry: an empty stripped line is
\* returned like any other
ReadLinePassNoSkip ==
    /\ l_pc = "loop"
    /\ LET r == ReadUntilTerm(l_backend, l_call.terms, l_stream,
                              l_call.error_on_timeout)
           stripped == IF l_call.remove_term /\ l_call.terms # <<>>
                       THEN remove_longest_term(r.res, l_call.terms)
                       ELSE r.res
       IN  /\ l_stream' = r.rest
           /\ IF r.raised
              THEN l_pc' = "raised" /\ l_result' = <<>>
              ELSE l_pc' = "returned" /\ l_result' = stripped
    /\ UNCHANGED <<l_backend, l_term_read, l_call, l_empties, l_line, l_lineterm>>

\* one pass of the body of readline's while loop (the whole body of
\* read_multichar_term): read up to a terminator, strip it, return or go round
ReadLinePass ==
    /\ l_pc = "loop"
    /\ LET r == ReadUntilTerm(l_backend, l_call.terms, l_stream,
                              l_call.error_on_timeout)
           stripped == IF l_call.remove_term /\ l_call.terms # <<>>
                       THEN remove_longest_term(r.res, l_call.terms)
                       ELSE r.res
       IN  /\ l_stream' = r.rest
           /\ IF r.raised
              THEN l_pc' = "raised" /\ l_result' = <<>>
              ELSE IF l_call.skip_empty /\ l_call.remove_term /\ stripped = <<>>
                   THEN l_pc' = "loop" /\ l_result' = <<>>
                   ELSE l_pc' = "returned" /\ l_result' = stripped
    /\ UNCHANGED <<l_backend, l_term_read, l_call, l_empties, l_line, l_lineterm>>

InitLine ==
    LineInit /\ TermIdle /\ TimeoutIdle /\ SerialIdle /\ OpsIdle /\ CoolIdle
    /\ ConnIdle /\ DetectIdle /\ FactoryIdle /\ ReadIdle /\ CtorIdle
    /\ WriteIdle /\ LockIdle /\ OwnIdle /\ SeqIdle /\ RetryIdle /\ ParamsIdle
    /\ WheelIdle

NextLine ==
    /\ \/ \E rt, se \in BOOLEAN : \E eot \in ErrorOnTimeoutChoices(l_backend) :
              CallReadline(rt, se, eot)
       \/ \E rt \in BOOLEAN : \E eot \in ErrorOnTimeoutChoices(l_backend) :
              CallReadMulticharTerm(l_term_read, rt, eot)
       \/ ReadLinePass
    /\ UNCHANGED <<termVars, timeoutVars, serialVars, opsVars, coolVars,
                   connVars, detectVars, factoryVars, readVars, ctorVars,
                   writeVars, lockVars, ownVars, seqVars, retryVars,
                   paramVars, wheelVars>>

SpecLine == InitLine /\ [][NextLine]_vars

\* a call that has been entered keeps running: the interpreter executes the
\* next pass of the while loop
SpecLineFair == SpecLine /\ WF_<<l_pc, l_stream, l_result>>(NextLine)

-----------------------------------------------------------------------------
(* SpecTimeout: set_timeout, get_timeout, using_timeout *)

AllBackends == {"visa", "serial", "ft232", "network", "pyusb"}

\* the timeouts a caller asks for: 0, 1 ms, 0.5 s and 2 s
TimeChoices == {0, 1, 500, 2000}

\* the value the transport holds once set_timeout(timeout) has run, given
\* the value `stored` it held before
StoredAfterSet(backend, stored, timeout) ==
    CASE backend = "visa" ->
            IF timeout # NoneT THEN timeout * 1000 ELSE stored
      [] backend = "serial" ->
            IF timeout # NoneT THEN timeout ELSE stored
      [] backend = "ft232" ->
            IF timeout # NoneT
            THEN (IF timeout < 1 THEN 1 ELSE timeout)
            ELSE stored
      [] backend = "network" -> timeout
      [] backend = "pyusb" ->
            IF timeout # NoneT THEN timeout ELSE stored

\* whether set_timeout(timeout) assigns the transport's timeout at all
SetterInvoked(backend, timeout) ==
    IF backend = "network" THEN TRUE ELSE timeout # NoneT

\* get_timeout
GetTimeout(backend, stored) ==
    IF backend = "visa" THEN stored \div 1000 ELSE stored

\* the timeouts a constructor may be given: visa and ft232 get a number
\* (their transports' own defaults are not the program's), the others may
\* get None
InitTimeChoices(backend) ==
    IF backend \in {"visa", "ft232"} THEN TimeChoices
    ELSE TimeChoices \cup {NoneT}

\* the transport's timeout once the constructor has run with `timeout`:
\* pyserial's port and the socket start without a timeout and the
\* constructor calls set_timeout(timeout), PyUSBDeviceBackend assigns
\* self.timeout
StoredAtInit(backend, timeout) ==
    IF backend = "pyusb" THEN timeout
    ELSE StoredAfterSet(backend, NoneT, timeout)

TimeoutInit ==
    /\ to_backend \in AllBackends
    /\ \E timeout \in InitTimeChoices(to_backend) :
           to_stored = StoredAtInit(to_backend, timeout)
    /\ to_blocks = <<>>
    /\ to_last = [op |-> "init"]

\* set_timeout(timeout), called outside any using_timeout block
SetTimeout(timeout) ==
    /\ to_blocks = <<>>
    /\ to_stored' = StoredAfterSet(to_backend, to_stored, timeout)
    /\ to_last' = [op |-> "set_timeout", timeout |-> timeout,
                   before |-> GetTimeout(to_backend, to_stored),
                   setter |-> SetterInvoked(to_backend, timeout)]
    /\ UNCHANGED <<to_backend, to_blocks>>

\* using_timeout(timeout).__enter__: remember the current timeout and set
\* the requested one when they differ
UsingEnter(timeout) ==
    /\ Len(to_blocks) < MaxUsing
    /\ LET prior == GetTimeout(to_backend, to_stored)
           change == timeout # NoneT /\ prior # timeout
       IN  /\ to_blocks' = Append(to_blocks,
                  [timeout |-> timeout,
                   to |-> IF timeout # NoneT THEN prior ELSE NoneT,
                   prior |-> prior])
           /\ to_stored' = IF change
                           THEN StoredAfterSet(to_backend, to_stored, timeout)
                           ELSE to_stored
           /\ to_last' = [op |-> "enter", timeout |-> timeout, before |-> prior,
                          setter |-> change /\ SetterInvoked(to_backend, timeout)]
    /\ UNCHANGED to_backend

\* using_timeout's finally clause, run when the innermost block returns or
\* raises: set the remembered timeout when it differs from the requested one
UsingExit(raised) ==
    /\ to_blocks # <<>>
    /\ LET b == to_blocks[Len(to_blocks)]
           change == b.timeout # NoneT /\ b.to # b.timeout
       IN  /\ to_blocks' = SubSeq(to_blocks, 1, Len(to_blocks) - 1)
           /\ to_stored' = IF change
                           THEN StoredAfterSet(to_backend, to_stored, b.to)
                           ELSE to_stored
           /\ to_last' = [op |-> "exit", timeout |-> b.timeout,
                          before |-> b.prior, raised |-> raised,
                          setter |-> change /\ SetterInvoked(to_backend, b.to)]
    /\ UNCHANGED to_backend

InitTimeout ==
    TimeoutInit /\ TermIdle /\ LineIdle /\ SerialIdle /\ OpsIdle /\ CoolIdle
    /\ ConnIdle /\ DetectIdle /\ FactoryIdle /\ ReadIdle /\ CtorIdle
    /\ WriteIdle /\ LockIdle /\ OwnIdle /\ SeqIdle /\ RetryIdle /\ ParamsIdle
    /\ WheelIdle

NextTimeout ==
    /\ \/ \E timeout \in TimeChoices \cup {NoneT} : SetTimeout(timeout)
       \/ \E timeout \in TimeChoices \cup {NoneT} : UsingEnter(timeout)
       \/ \E raised \in BOOLEAN : UsingExit(raised)
    /\ UNCHANGED <<termVars, lineVars, serialVars, opsVars, coolVars,
                   connVars, detectVars, factoryVars, readVars, ctorVars,
                   writeVars, lockVars, ownVars, seqVars, retryVars,
                   paramVars, wheelVars>>

SpecTimeout == InitTimeout /\ [][NextTimeout]_vars

-----------------------------------------------------------------------------
(* SpecSerial: SerialDeviceBackend's open, close, single_op and the calls   *)
(* that run inside single_op scopes                                         *)

\* the frames that hold a single_op scope: the caller's own with-block, read,
\* write and _read_terms; readline holds none of its own
ScopeKinds == {"user", "read", "write", "rt"}

Frame(kind, pc, arg, left) ==
    [kind |-> kind, pc |-> pc, arg |-> arg, left |-> left, base |-> s_stack]

Top == s_frames[Len(s_frames)]
Popped == SubSeq(s_frames, 1, Len(s_frames) - 1)

\* the innermost frame's kind, "none" outside every call
TopKind == IF s_frames = <<>> THEN "none" ELSE Top.kind

\* the caller's code is running: no call is in progress, or the innermost
\* frame is the caller's own single_op block
UserLevel == ~s_exc /\ TopKind \in {"none", "user"}

\* how a call ended: the counter when it began and when it ended, and
\* whether the port was open when it ended
Ended(frame, raised, stack, port) ==
    [kind |-> frame.kind, raised |-> raised, base |-> frame.base,
     after |-> stack, port |-> port]

\* _op_open opens the port on every entry, whatever the counter
OpensPortAlways == s_coo

\* _op_open: the port is opened when no scope is open yet
OpensPort == s_coo /\ s_stack = 0

StackAfterOpen == IF s_coo THEN s_stack + 1 ELSE s_stack

\* _op_close: the counter goes down and the port is closed when it reaches 0
\* (instr.close is taken to succeed)
StackAfterClose == IF s_coo THEN s_stack - 1 ELSE s_stack
ClosesPort == s_coo /\ s_stack - 1 = 0

\* one step of the backend: the new values, with the bookkeeping of what the
\* step did to the port
SerialStep(frames, stack, port, exc, ev, ret) ==
    /\ s_frames' = frames
    /\ s_stack' = stack
    /\ s_port' = port
    /\ s_exc' = exc
    /\ s_ev' = ev
    /\ s_ret' = ret
    /\ s_prev' = s_stack
    /\ s_opens' = (IF s_frames = <<>> THEN 0 ELSE s_opens)
                  + (IF ev = "open" THEN 1 ELSE 0)
    /\ s_closes' = (IF s_frames = <<>> THEN 0 ELSE s_closes)
                   + (IF ev = "close" THEN 1 ELSE 0)
    /\ UNCHANGED <<s_coo, s_opened>>

\* single_op.__enter__ for `frame`: _op_open, which may fail to open the port
\* (then the exception leaves the with statement and nothing was entered)
EnterScope(frame, waiting, ok) ==
    IF OpensPort /\ ~ok
    THEN SerialStep(s_frames, s_stack, s_port, TRUE, "open_failed",
                    Ended(frame, TRUE, s_stack, s_port))
    ELSE SerialStep(Append(waiting, frame), StackAfterOpen,
                    IF OpensPort THEN TRUE ELSE s_port, FALSE,
                    IF OpensPort THEN "open" ELSE "none", s_ret)

\* whether the port open of an entry may fail: only when one is attempted
OpenOutcomes == IF OpensPort THEN BOOLEAN ELSE {TRUE}

\* the frames once the innermost call has returned to its caller: a
\* _read_terms result goes to read or readline, a readline result to write
AfterReturn ==
    IF Popped = <<>> THEN Popped
    ELSE LET parent == Popped[Len(Popped)]
         IN  CASE Top.kind = "rt" /\ parent.kind = "read" ->
                    [Popped EXCEPT ![Len(Popped)].pc = "done"]
               [] Top.kind = "rt" /\ parent.kind = "readline" ->
                    [Popped EXCEPT ![Len(Popped)].pc = "got"]
               [] Top.kind = "readline" /\ parent.kind = "write" ->
                    [Popped EXCEPT ![Len(Popped)].left = parent.left - 1]
               [] OTHER -> Popped

\* the innermost scope is left normally: single_op's finally runs _op_close
LeaveScope ==
    SerialStep(AfterReturn, StackAfterClose,
               IF ClosesPort THEN FALSE ELSE s_port, FALSE,
               IF ClosesPort THEN "close" ELSE "none",
               Ended(Top, FALSE, StackAfterClose,
                     IF ClosesPort THEN FALSE ELSE s_port))

\* the caller enters `with backend.single_op():`
UserEnterSingleOp(ok) ==
    /\ UserLevel
    /\ Len(s_frames) < MaxNest
    /\ EnterScope(Frame("user", "body", "", 0), s_frames, ok)

\* the caller's with-block ends normally
UserLeaveSingleOp ==
    /\ UserLevel /\ s_frames # <<>>
    /\ LeaveScope

\* the caller's code raises inside its with-block
UserRaise ==
    /\ UserLevel /\ s_frames # <<>>
    /\ SerialStep(s_frames, s_stack, s_port, TRUE, "none", s_ret)

\* read(size) is called: size None ("all") or a number ("fixed")
CallRead(arg, ok) ==
    /\ UserLevel
    /\ EnterScope(Frame("read", "body", arg, 0), s_frames, ok)

\* read(size=N): instr.read(size); a short result (or a closed port) raises
ReadFixed(ok) ==
    /\ ~s_exc /\ s_frames # <<>>
    /\ Top.kind = "read" /\ Top.pc = "body" /\ Top.arg = "fixed"
    /\ IF ok /\ s_port
       THEN SerialStep([s_frames EXCEPT ![Len(s_frames)].pc = "done"],
                       s_stack, s_port, FALSE, "none", s_ret)
       ELSE SerialStep(s_frames, s_stack, s_port, TRUE, "none", s_ret)

\* read(size=None) and readline call _read_terms, which enters single_op
CallReadTerms(ok) ==
    /\ ~s_exc /\ s_frames # <<>>
    /\ IF Top.kind = "read" THEN Top.pc = "body" /\ Top.arg = "all"
       ELSE Top.kind = "readline" /\ Top.pc = "loop"
    /\ EnterScope(Frame("rt", "body", Top.arg, 0),
                  [s_frames EXCEPT ![Len(s_frames)].pc = "wait"], ok)

\* _read_terms' loop over instr.read: it returns a result, or raises (the
\* timeout error when error_on_timeout and terminators are set, or the
\* transport's own error, as on a closed port)
ReadTermsLoop(ok) ==
    /\ ~s_exc /\ s_frames # <<>>
    /\ Top.kind = "rt" /\ Top.pc = "body"
    /\ IF ok /\ s_port
       THEN SerialStep([s_frames EXCEPT ![Len(s_frames)].pc = "done"],
                       s_stack, s_port, FALSE, "none", s_ret)
       ELSE SerialStep(s_frames, s_stack, s_port, TRUE, "none", s_ret)

\* read, _read_terms or write returns: its with-block is left
CallReturns ==
    /\ ~s_exc /\ s_frames # <<>>
    /\ IF Top.kind = "write" THEN Top.pc = "echo" /\ Top.left = 0
       ELSE Top.kind \in {"read", "rt"} /\ Top.pc = "done"
    /\ LeaveScope

\* readline is called by the caller, or by write for an echo line; `empties`
\* empty lines come before the line it will return
CallReadline_s(empties) ==
    /\ IF TopKind = "write" THEN ~s_exc /\ Top.pc = "echo" /\ Top.left > 0
       ELSE UserLevel
    /\ SerialStep(Append(s_frames, Frame("readline", "loop", "", empties)),
                  s_stack, s_port, FALSE, "none", s_ret)

\* readline after _read_terms returned: go round again for an empty line
\* (skip_empty), or return
ReadlineGot(again) ==
    /\ ~s_exc /\ s_frames # <<>>
    /\ Top.kind = "readline" /\ Top.pc = "got"
    /\ again => Top.left > 0
    /\ IF again
       THEN SerialStep([s_frames EXCEPT ![Len(s_frames)].pc = "loop",
                                        ![Len(s_frames)].left = Top.left - 1],
                       s_stack, s_port, FALSE, "none", s_ret)
       ELSE SerialStep(AfterReturn, s_stack, s_port, FALSE, "none",
                       Ended(Top, FALSE, s_stack, s_port))

\* write(data, read_echo, read_echo_lines) is called
CallWrite(read_echo, lines, ok) ==
    /\ UserLevel
    /\ EnterScope(Frame("write", "body", "", IF read_echo THEN lines ELSE 0),
                  s_frames, ok)

\* write's instr.write and flush: they succeed, or the transport raises
WriteBody(ok) ==
    /\ ~s_exc /\ s_frames # <<>>
    /\ Top.kind = "write" /\ Top.pc = "body"
    /\ IF ok /\ s_port
       THEN SerialStep([s_frames EXCEPT ![Len(s_frames)].pc = "echo"],
                       s_stack, s_port, FALSE, "none", s_ret)
       ELSE SerialStep(s_frames, s_stack, s_port, TRUE, "none", s_ret)

\* single_op without try/finally: an exception leaves the scope without
\* _op_close
UnwindNoClose ==
    /\ s_exc /\ s_frames # <<>>
    /\ SerialStep(Popped, s_stack, s_port, TRUE, "none",
                  Ended(Top, TRUE, s_stack, s_port))

\* an exception leaves the innermost frame: single_op's finally runs
\* _op_close, readline has nothing to undo
Unwind ==
    /\ s_exc /\ s_frames # <<>>
    /\ IF Top.kind \in ScopeKinds
       THEN SerialStep(Popped, StackAfterClose,
                       IF ClosesPort THEN FALSE ELSE s_port, TRUE,
                       IF ClosesPort THEN "close" ELSE "none",
                       Ended(Top, TRUE, StackAfterClose,
                             IF ClosesPort THEN FALSE ELSE s_port))
       ELSE SerialStep(Popped, s_stack, s_port, TRUE, "none",
                       Ended(Top, TRUE, s_stack, s_port))

\* the caller catches the exception: inside its own with-block, or outside
\* every block
UserCatch ==
    /\ s_exc
    /\ TopKind \in {"none", "user"}
    /\ SerialStep(s_frames, s_stack, s_port, FALSE, "none", s_ret)

\* open() that opens the port whether or not the backend counts as open
ApiOpenUnguarded(ok) ==
    /\ UserLevel
    /\ IF ~s_coo
       THEN IF ok
            THEN s_port' = TRUE /\ s_ev' = "open" /\ s_opened' = TRUE
                 /\ s_exc' = FALSE
            ELSE s_port' = s_port /\ s_ev' = "open_failed"
                 /\ s_opened' = s_opened /\ s_exc' = TRUE
       ELSE s_port' = s_port /\ s_ev' = "none" /\ s_opened' = TRUE
            /\ s_exc' = FALSE
    /\ s_prev' = s_stack
    /\ UNCHANGED <<s_coo, s_stack, s_frames, s_ret, s_opens, s_closes>>

\* open(): the port is opened only without connect_on_operation and when
\* the backend counts as closed
ApiOpen(ok) ==
    /\ UserLevel
    /\ IF ~s_coo /\ ~s_opened
       THEN IF ok
            THEN s_port' = TRUE /\ s_ev' = "open" /\ s_opened' = TRUE
                 /\ s_exc' = FALSE
            ELSE s_port' = s_port /\ s_ev' = "open_failed"
                 /\ s_opened' = s_opened /\ s_exc' = TRUE
       ELSE s_port' = s_port /\ s_ev' = "none" /\ s_opened' = TRUE
            /\ s_exc' = FALSE
    /\ s_prev' = s_stack
    /\ UNCHANGED <<s_coo, s_stack, s_frames, s_ret, s_opens, s_closes>>

\* close()
ApiClose ==
    /\ UserLevel
    /\ IF ~s_coo /\ s_opened
       THEN s_port' = FALSE /\ s_ev' = "close"
       ELSE s_port' = s_port /\ s_ev' = "none"
    /\ s_opened' = FALSE
    /\ s_prev' = s_stack
    /\ UNCHANGED <<s_coo, s_stack, s_frames, s_exc, s_ret, s_opens, s_closes>>

\* after the constructor: the port is open unless connect_on_operation
SerialInit ==
    /\ s_coo \in BOOLEAN
    /\ s_opened = TRUE
    /\ s_stack = 0
    /\ s_port = ~s_coo
    /\ s_frames = <<>>
    /\ s_exc = FALSE
    /\ s_ev = "none"
    /\ s_prev = 0
    /\ s_ret = [kind |-> "none"]
    /\ s_opens = 0
    /\ s_closes = 0

InitSerial ==
    SerialInit /\ TermIdle /\ LineIdle /\ TimeoutIdle /\ OpsIdle /\ CoolIdle
    /\ ConnIdle /\ DetectIdle /\ FactoryIdle /\ ReadIdle /\ CtorIdle
    /\ WriteIdle /\ LockIdle /\ OwnIdle /\ SeqIdle /\ RetryIdle /\ ParamsIdle
    /\ WheelIdle

NextSerial ==
    /\ \/ \E ok \in OpenOutcomes : UserEnterSingleOp(ok)
       \/ UserLeaveSingleOp
       \/ UserRaise
       \/ \E arg \in {"all", "fixed"} : \E ok \in OpenOutcomes : CallRead(arg, ok)
       \/ \E ok \in BOOLEAN : ReadFixed(ok)
       \/ \E ok \in OpenOutcomes : CallReadTerms(ok)
       \/ \E ok \in BOOLEAN : ReadTermsLoop(ok)
       \/ CallReturns
       \/ \E empties \in 0..MaxEmpty : CallReadline_s(empties)
       \/ \E again \in BOOLEAN : ReadlineGot(again)
       \/ \E read_echo \in BOOLEAN : \E lines \in 1..MaxEchoLines :
              \E ok \in OpenOutcomes : CallWrite(read_echo, lines, ok)
       \/ \E ok \in BOOLEAN : WriteBody(ok)
       \/ Unwind
       \/ UserCatch
       \/ \E ok \in BOOLEAN : ApiOpen(ok)
       \/ ApiClose
    /\ UNCHANGED <<termVars, lineVars, timeoutVars, opsVars, coolVars,
                   connVars, detectVars, factoryVars, readVars, ctorVars,
                   writeVars, lockVars, ownVars, seqVars, retryVars,
                   paramVars, wheelVars>>

SpecSerial == InitSerial /\ [][NextSerial]_vars

-----------------------------------------------------------------------------
(* SpecOps: the transport operations and the cooldowns of each call, on     *)
(* every backend                                                            *)

\* s repeated k times
RECURSIVE Repeat(_, _)
Repeat(s, k) == IF k = 0 THEN <<>> ELSE s \o Repeat(s, k - 1)

\* what set_timeout(timeout) does
SetTimeoutLog(backend, timeout) ==
    CASE backend \in {"visa", "serial", "ft232"} ->
            IF timeout # NoneT THEN <<"t:timeout", "cd:timeout">> ELSE <<>>
      [] backend = "network" -> <<"t:timeout">>
      [] backend = "pyusb" ->
            IF timeout # NoneT THEN <<"t:timeout">> ELSE <<>>

\* using_timeout(timeout) changes the timeout for its block
UsingChanges(backend, stored, timeout) ==
    timeout # NoneT /\ GetTimeout(backend, stored) # timeout

\* what `with using_timeout(timeout): body` does
UsingTimeoutLog(backend, stored, timeout, body) ==
    IF UsingChanges(backend, stored, timeout)
    THEN SetTimeoutLog(backend, timeout) \o body
         \o SetTimeoutLog(backend, GetTimeout(backend, stored))
    ELSE body

\* the transport's timeout after such a block
StoredAfterUsing(backend, stored, timeout) ==
    IF UsingChanges(backend, stored, timeout)
    THEN StoredAfterSet(backend, StoredAfterSet(backend, stored, timeout),
                        GetTimeout(backend, stored))
    ELSE stored

\* what `with single_op(): body` does; `opens`: the serial backend connects
\* on operation and this is the outermost scope
SingleOpLog(opens, body) ==
    IF opens THEN <<"t:open">> \o body \o <<"t:close">> ELSE body

\* _read_terms making n transport reads
ReadTermsLog(backend, opens, stored, timeout, n) ==
    IF backend = "pyusb" THEN Repeat(<<"t:read">>, n)
    ELSE SingleOpLog(opens, UsingTimeoutLog(backend, stored, timeout,
                                            Repeat(<<"t:read">>, n)))

\* readline going `passes` times round its loop
ReadlineLog(backend, opens, stored, timeout, passes, n) ==
    CASE backend = "visa" ->
            UsingTimeoutLog(backend, stored, timeout,
                            Repeat(<<"t:read">>, passes)) \o <<"cd:read">>
      [] backend = "network" ->
            Repeat(UsingTimeoutLog(backend, stored, timeout, <<"t:read">>)
                   \o <<"cd:read">>, passes)
      [] OTHER ->
            Repeat(ReadTermsLog(backend, opens, stored, timeout, n)
                   \o <<"cd:read">>, passes)

\* read(size): "all" for size=None, "fixed" for a number; ~ok: the fixed-size
\* read came back short or failed
ReadLog(backend, opens, stored, size, ok, n) ==
    CASE backend = "visa" ->
            IF size = "all"
            THEN UsingTimeoutLog(backend, stored, 1, Repeat(<<"t:read">>, n))
                 \o <<"cd:read">>
            ELSE IF ok THEN <<"t:read", "cd:read">> ELSE <<"t:read">>
      [] backend \in {"serial", "ft232"} ->
            SingleOpLog(opens,
                IF size = "all"
                THEN ReadTermsLog(backend, FALSE, stored, 0, n) \o <<"cd:read">>
                ELSE IF ok THEN <<"t:read", "cd:read">> ELSE <<"t:read">>)
      [] backend = "network" ->
            IF size = "all" THEN <<"t:read">>
            ELSE IF ok THEN <<"t:read", "cd:read">> ELSE <<"t:read">>
      [] backend = "pyusb" ->
            IF size = "all"
            THEN ReadTermsLog(backend, FALSE, stored, 0, 1) \o <<"cd:read">>
            ELSE IF ok THEN <<"t:read", "cd:read">> ELSE <<"t:read">>

\* the transport's timeout after read(size)
StoredAfterRead(backend, stored, size) ==
    CASE size = "all" /\ backend = "visa" -> StoredAfterUsing(backend, stored, 1)
      [] size = "all" /\ backend \in {"serial", "ft232"} ->
            StoredAfterUsing(backend, stored, 0)
      [] OTHER -> stored

\* write(data, flush, read_echo, read_echo_lines); ~ok: the transport's
\* write failed
WriteLog(backend, opens, stored, flush, read_echo, lines, passes, n, ok) ==
    LET body ==
            IF ~ok THEN <<"t:write">>
            ELSE <<"t:write", "cd:write">>
                 \o (IF flush /\ backend \in {"serial", "ft232"}
                     THEN <<"t:flush", "cd:flush">> ELSE <<>>)
                 \o (IF read_echo
                     THEN Repeat(ReadlineLog(backend, FALSE, stored, NoneT,
                                             passes, n), lines)
                     ELSE <<>>)
    IN  IF backend = "serial" THEN SingleOpLog(opens, body) ELSE body

\* open()
OpenLog(backend, coo, opened, ctimeout, ok) ==
    CASE backend = "visa" -> IF ok THEN <<"t:open", "cd:open">> ELSE <<"t:open">>
      [] backend = "serial" ->
            IF ~coo /\ ~opened THEN <<"t:open">> ELSE <<>>
      [] backend = "ft232" ->
            IF opened THEN <<>>
            ELSE IF ok THEN <<"t:open">> \o SetTimeoutLog(backend, ctimeout)
            ELSE <<"t:open">>
      [] backend = "network" ->
            (IF opened THEN <<"t:close">> ELSE <<>>) \o <<"t:open">>
      [] backend = "pyusb" ->
            IF ok THEN <<"t:open", "cd:open">> ELSE <<"t:open">>

\* whether open() reaches the transport, so that it may fail
OpenMayFail(backend, coo, opened) ==
    CASE backend = "serial" -> ~coo /\ ~opened
      [] backend = "ft232" -> ~opened
      [] OTHER -> TRUE

\* close()
CloseLog(backend, coo, opened) ==
    CASE backend = "visa" -> <<"t:close", "cd:close">>
      [] backend = "serial" ->
            IF ~coo /\ opened THEN <<"t:close">> ELSE <<>>
      [] backend \in {"ft232", "network"} ->
            IF opened THEN <<"t:close">> ELSE <<>>
      [] backend = "pyusb" -> <<"t:close">>

\* the transport can be used: it is open, or the serial backend opens it for
\* the operation
Usable == o_opened \/ (o_backend = "serial" /\ o_coo)

\* the outermost single_op scope opens the port
Opens == o_backend = "serial" /\ o_coo

Called(op, status, timeout) == [op |-> op, status |-> status, timeout |-> timeout]

OpOpen(ok) ==
    /\ o_call' = Called("open", IF ok THEN "returned" ELSE "raised", NoneT)
    /\ o_log' = OpenLog(o_backend, o_coo, o_opened, o_ctimeout, ok)
    /\ o_opened' = CASE ok -> TRUE
                     [] ~ok /\ o_backend = "network" -> FALSE
                     [] OTHER -> o_opened
    /\ IF ok /\ o_backend = "ft232" /\ ~o_opened
       THEN o_stored' = StoredAfterSet(o_backend, o_stored, o_ctimeout)
       ELSE IF ok /\ o_backend = "network"
       THEN o_stored' \in TimeChoices \cup {NoneT}
       ELSE o_stored' = o_stored
    /\ UNCHANGED <<o_backend, o_coo, o_ctimeout>>

OpClose ==
    /\ o_call' = Called("close", "returned", NoneT)
    /\ o_log' = CloseLog(o_backend, o_coo, o_opened)
    /\ o_opened' = FALSE
    /\ UNCHANGED <<o_backend, o_coo, o_ctimeout, o_stored>>

OpSetTimeout(timeout) ==
    /\ Usable
    /\ o_call' = Called("set_timeout", "returned", timeout)
    /\ o_log' = SetTimeoutLog(o_backend, timeout)
    /\ o_stored' = StoredAfterSet(o_backend, o_stored, timeout)
    /\ UNCHANGED <<o_backend, o_coo, o_opened, o_ctimeout>>

OpRead(size, ok, n) ==
    /\ Usable
    /\ o_call' = Called("read",
                        IF size = "fixed" /\ ~ok THEN "raised" ELSE "returned",
                        NoneT)
    /\ o_log' = ReadLog(o_backend, Opens, o_stored, size, ok, n)
    /\ o_stored' = StoredAfterRead(o_backend, o_stored, size)
    /\ UNCHANGED <<o_backend, o_coo, o_opened, o_ctimeout>>

OpReadline(timeout, passes, n) ==
    /\ Usable
    /\ o_call' = Called("readline", "returned", timeout)
    /\ o_log' = ReadlineLog(o_backend, Opens, o_stored, timeout, passes, n)
    /\ o_stored' = IF o_backend = "pyusb" THEN o_stored
                   ELSE StoredAfterUsing(o_backend, o_stored, timeout)
    /\ UNCHANGED <<o_backend, o_coo, o_opened, o_ctimeout>>

OpWrite(flush, read_echo, lines, passes, n, ok) ==
    /\ Usable
    /\ o_call' = Called("write", IF ok THEN "returned" ELSE "raised", NoneT)
    /\ o_log' = WriteLog(o_backend, Opens, o_stored, flush, read_echo, lines,
                         passes, n, ok)
    /\ UNCHANGED <<o_backend, o_coo, o_opened, o_ctimeout, o_stored>>

\* a call that needs the transport while it is closed fails in the transport
OpOnClosed(op) ==
    /\ ~Usable
    /\ o_call' = Called(op, "raised", NoneT)
    /\ o_log' = <<>>
    /\ UNCHANGED <<o_backend, o_coo, o_opened, o_ctimeout, o_stored>>

\* after the constructor
OpsInit ==
    /\ o_backend \in AllBackends
    /\ o_coo \in (IF o_backend = "serial" THEN BOOLEAN ELSE {FALSE})
    /\ o_opened = TRUE
    /\ o_ctimeout \in InitTimeChoices(o_backend)
    /\ o_stored = StoredAtInit(o_backend, o_ctimeout)
    /\ o_call = Called("init", "returned", o_ctimeout)
    /\ o_log = <<>>

InitOps ==
    OpsInit /\ TermIdle /\ LineIdle /\ TimeoutIdle /\ SerialIdle /\ CoolIdle
    /\ ConnIdle /\ DetectIdle /\ FactoryIdle /\ ReadIdle /\ CtorIdle
    /\ WriteIdle /\ LockIdle /\ OwnIdle /\ SeqIdle /\ RetryIdle /\ ParamsIdle
    /\ WheelIdle

NextOps ==
    /\ \/ \E ok \in (IF OpenMayFail(o_backend, o_coo, o_opened)
                     THEN BOOLEAN ELSE {TRUE}) : OpOpen(ok)
       \/ OpClose
       \/ \E timeout \in TimeChoices \cup {NoneT} : OpSetTimeout(timeout)
       \/ \E size \in {"all", "fixed"} : \E ok \in BOOLEAN :
              \E n \in 1..MaxReads : OpRead(size, ok, n)
       \/ \E timeout \in TimeChoices \cup {NoneT} : \E passes \in 1..(MaxEmpty + 1) :
              \E n \in 1..MaxReads : OpReadline(timeout, passes, n)
       \/ \E flush, read_echo, ok \in BOOLEAN : \E lines \in 1..MaxEchoLines :
              \E passes \in 1..(MaxEmpty + 1) : \E n \in 1..MaxReads :
                  OpWrite(flush, read_echo, lines, passes, n, ok)
       \/ \E op \in {"set_timeout", "read", "readline", "write"} : OpOnClosed(op)
    /\ UNCHANGED <<termVars, lineVars, timeoutVars, serialVars, coolVars,
                   connVars, detectVars, factoryVars, readVars, ctorVars,
                   writeVars, lockVars, ownVars, seqVars, retryVars,
                   paramVars, wheelVars>>

SpecOps == InitOps /\ [][NextOps]_vars

-----------------------------------------------------------------------------
(* SpecCool: setup_cooldown and the cooldown table                          *)

\* operation kinds a caller configures, and the cooldown values it gives
CoolKinds == {"default", "read", "write"}
CoolValues == {0, 1}

\* the keyword arguments of a setup_cooldown call: any of the kinds, and "all"
KwargsChoices ==
    UNION {[D -> CoolValues] : D \in SUBSET (CoolKinds \cup {"all"})}

\* dict.update
Updated(table, kwargs) ==
    [k \in DOMAIN table \cup DOMAIN kwargs |->
        IF k \in DOMAIN kwargs THEN kwargs[k] ELSE table[k]]

\* the dict without one key (after kwargs.pop)
Without(kwargs, key) == [k \in DOMAIN kwargs \ {key} |-> kwargs[k]]

\* setup_cooldown that resets the table without taking "all" out of kwargs
setup_cooldown_no_pop(table, kwargs) ==
    IF "all" \in DOMAIN kwargs
    THEN Updated([k \in {"default"} |-> kwargs["all"]], kwargs)
    ELSE Updated(table, kwargs)

\* setup_cooldown(**kwargs): the new _operation_cooldown
setup_cooldown(table, kwargs) ==
    IF "all" \in DOMAIN kwargs
    THEN Updated([k \in {"default"} |-> kwargs["all"]], Without(kwargs, "all"))
    ELSE Updated(table, kwargs)

\* after the constructor: a copy of _default_operation_cooldown
CoolInit ==
    /\ c_table = [k \in {"default"} |-> 0]
    /\ c_pc = "init"
    /\ c_kwargs = <<>>
    /\ c_prev = <<>>

SetupCooldown(kwargs) ==
    /\ c_table' = setup_cooldown(c_table, kwargs)
    /\ c_pc' = "called"
    /\ c_kwargs' = kwargs
    /\ c_prev' = c_table

InitCool ==
    CoolInit /\ TermIdle /\ LineIdle /\ TimeoutIdle /\ SerialIdle /\ OpsIdle
    /\ ConnIdle /\ DetectIdle /\ FactoryIdle /\ ReadIdle /\ CtorIdle
    /\ WriteIdle /\ LockIdle /\ OwnIdle /\ SeqIdle /\ RetryIdle /\ ParamsIdle
    /\ WheelIdle

NextCool ==
    /\ \E kwargs \in KwargsChoices : SetupCooldown(kwargs)
    /\ UNCHANGED <<termVars, lineVars, timeoutVars, serialVars, opsVars,
                   connVars, detectVars, factoryVars, readVars, ctorVars,
                   writeVars, lockVars, ownVars, seqVars, retryVars,
                   paramVars, wheelVars>>

SpecCool == InitCool /\ [][NextCool]_vars

-----------------------------------------------------------------------------
(* SpecConn: _conn_to_dict and combine_conn                                 *)

\* the classes combine_conn is called on: the registered backends and the
\* base class
ConnClasses == AllBackends \cup {"base"}

\* cls._conn_params
ConnParams(cls) ==
    CASE cls = "base" -> <<"addr">>
      [] cls = "visa" -> <<"addr">>
      [] cls = "serial" -> <<"port", "baudrate", "bytesize", "parity",
                            "stopbits", "xonxoff", "rtscts", "dsrdtr">>
      [] cls = "ft232" -> <<"port", "baudrate", "bytesize", "parity",
                           "stopbits", "xonxoff", "rtscts">>
      [] cls = "network" -> <<"addr", "port">>
      [] cls = "pyusb" -> <<"vendorID", "productID", "index", "endpoint_read",
                           "endpoint_write", "backend">>

\* connection parameters as a caller writes them: a dict, a tuple or list,
\* or a bare value
DictConn(d) == [form |-> "dict", d |-> d, items |-> <<>>, v |-> None]
SeqConn(items) == [form |-> "seq", d |-> <<>>, items |-> items, v |-> None]
ScalarConn(v) == [form |-> "scalar", d |-> <<>>, items |-> <<>>, v |-> v]

\* parameter values, and the keys of the dicts a caller passes
ConnValues == {"v1", "v2"}
ConnKeys == {"addr", "port", "baudrate"}

ConnChoices ==
    {DictConn(d) : d \in UNION {[D -> ConnValues] : D \in SUBSET ConnKeys}}
    \cup {SeqConn(items) : items \in SeqsOf(ConnValues, 0, MaxConnLen)}
    \cup {ScalarConn(v) : v \in ConnValues \cup {None}}

\* dict(zip(names, items))
RECURSIVE ZipDict(_, _, _)
ZipDict(names, items, i) ==
    IF i > Len(names) \/ i > Len(items) THEN <<>>
    ELSE Updated([k \in {names[i]} |-> items[i]], ZipDict(names, items, i + 1))

\* _conn_to_dict
ConnToDict(cls, conn) ==
    CASE conn.form = "dict" -> conn.d
      [] conn.form = "seq" -> ZipDict(ConnParams(cls), conn.items, 1)
      [] conn.form = "scalar" -> [k \in {ConnParams(cls)[1]} |-> conn.v]

\* combine_conn with the precedence the other way round
combine_conn_second_wins(cls, conn1, conn2) ==
    Updated(ConnToDict(cls, conn1), ConnToDict(cls, conn2))

\* combine_conn: a copy of conn2's dictionary updated with conn1's
combine_conn(cls, conn1, conn2) ==
    Updated(ConnToDict(cls, conn2), ConnToDict(cls, conn1))

ConnInit ==
    /\ k_cls \in ConnClasses
    /\ k_conn1 \in ConnChoices
    /\ k_conn2 \in ConnChoices
    /\ k_arg1 = k_conn1
    /\ k_arg2 = k_conn2
    /\ k_res = <<>>
    /\ k_pc = "init"

\* cls.combine_conn(conn1, conn2): the update goes to the copy, so both
\* argument objects stay as they are
CombineConn ==
    /\ k_pc = "init"
    /\ k_res' = combine_conn(k_cls, k_conn1, k_conn2)
    /\ k_pc' = "done"
    /\ UNCHANGED <<k_cls, k_conn1, k_conn2, k_arg1, k_arg2>>

InitConn ==
    /\ ConnInit /\ TermIdle /\ LineIdle /\ TimeoutIdle /\ SerialIdle
    /\ OpsIdle /\ CoolIdle /\ DetectIdle /\ FactoryIdle /\ ReadIdle
    /\ CtorIdle /\ WriteIdle /\ LockIdle /\ OwnIdle /\ SeqIdle /\ RetryIdle
    /\ ParamsIdle /\ WheelIdle

NextConn ==
    /\ CombineConn
    /\ UNCHANGED <<termVars, lineVars, timeoutVars, serialVars, opsVars,
                   coolVars, detectVars, factoryVars, readVars, ctorVars,
                   writeVars, lockVars, ownVars, seqVars, retryVars,
                   paramVars, wheelVars>>

SpecConn == InitConn /\ [][NextConn]_vars

-----------------------------------------------------------------------------
(* SpecDetect: autodetect_backend                                           *)

\* Python values: strings (sequences of characters: "1" a digit, "x" any
\* character that is no digit, dot, colon or letter of "com"), integers,
\* None, tuples or lists of such values, and dicts of such values
StrV(chars) == [type |-> "str", chars |-> chars, int |-> 0, items |-> <<>>, d |-> <<>>]
IntV(n) == [type |-> "int", chars |-> <<>>, int |-> n, items |-> <<>>, d |-> <<>>]
NoneV == [type |-> "none", chars |-> <<>>, int |-> 0, items |-> <<>>, d |-> <<>>]
SeqV(items) == [type |-> "seq", chars |-> <<>>, int |-> 0, items |-> items, d |-> <<>>]
DictV(d) == [type |-> "dict", chars |-> <<>>, int |-> 0, items |-> <<>>, d |-> d]

\* the bound of a vendor or product ID
UsbIdLimit == 65536

IsDigit(c) == c = "1"

\* str.lower on the letters the patterns name
Lower(c) ==
    CASE c = "C" -> "c" [] c = "O" -> "o" [] c = "M" -> "m" [] OTHER -> c

\* \d+ from position i: the position after the digits (i when there is none)
RECURSIVE DigitsEnd(_, _)
DigitsEnd(s, i) ==
    IF i <= Len(s) /\ IsDigit(s[i]) THEN DigitsEnd(s, i + 1) ELSE i

\* (\d+\.){k} from position i: the position after it, 0 when it does not match
RECURSIVE DottedGroups(_, _, _)
DottedGroups(s, i, k) ==
    IF k = 0 THEN i
    ELSE LET e == DigitsEnd(s, i)
         IN  IF e > i /\ e <= Len(s) /\ s[e] = "."
             THEN DottedGroups(s, e + 1, k - 1)
             ELSE 0

\* _network_re.match(s) from position i: (\d+\.){3}\d+(:\d+)?
NetworkReMatchAt(s, i) ==
    LET g == DottedGroups(s, i, 3)
    IN  g # 0 /\ DigitsEnd(s, g) > g

\* _is_network_addr with re.search in place of re.match
IsNetworkAddrAnywhere(v) ==
    v.type = "str" /\ \E i \in 1..Len(v.chars) : NetworkReMatchAt(v.chars, i)

\* _is_network_addr
IsNetworkAddr(v) == v.type = "str" /\ NetworkReMatchAt(v.chars, 1)

\* _is_serial_addr: ^com\d+, ignoring case
IsSerialAddr(v) ==
    /\ v.type = "str"
    /\ Len(v.chars) >= 4
    /\ Lower(v.chars[1]) = "c" /\ Lower(v.chars[2]) = "o"
    /\ Lower(v.chars[3]) = "m"
    /\ DigitsEnd(v.chars, 4) > 4

\* the PID / VID test on one element
IsUsbId(v) == v.type = "int" /\ 0 <= v.int /\ v.int < UsbIdLimit

\* the tests at the end of autodetect_backend
DetectString(conn, default) ==
    IF IsNetworkAddr(conn) THEN "network"
    ELSE IF IsSerialAddr(conn) THEN "serial"
    ELSE default

\* the dict branch with the vendorID / productID test first
DetectDictUsbFirst(conn, default) ==
    IF "vendorID" \in DOMAIN conn.d /\ "productID" \in DOMAIN conn.d
    THEN "pyusb"
    ELSE IF "addr" \in DOMAIN conn.d /\ IsNetworkAddr(conn.d["addr"])
    THEN "network"
    ELSE IF "port" \in DOMAIN conn.d /\ IsSerialAddr(conn.d["port"])
    THEN "serial"
    ELSE default

\* the dict branch of autodetect_backend
DetectDict(conn, default) ==
    IF "addr" \in DOMAIN conn.d /\ IsNetworkAddr(conn.d["addr"])
    THEN "network"
    ELSE IF "port" \in DOMAIN conn.d /\ IsSerialAddr(conn.d["port"])
    THEN "serial"
    ELSE IF "vendorID" \in DOMAIN conn.d /\ "productID" \in DOMAIN conn.d
    THEN "pyusb"
    ELSE default

\* autodetect_backend(conn, default); "raised": conn[0] of an empty sequence
autodetect_backend(conn, default) ==
    CASE conn.type = "seq" ->
            IF Len(conn.items) >= 2 /\ IsUsbId(conn.items[1])
               /\ IsUsbId(conn.items[2])
            THEN "pyusb"
            ELSE IF conn.items = <<>> THEN "raised"
            ELSE DetectString(conn.items[1], default)
      [] conn.type = "dict" -> DetectDict(conn, default)
      [] OTHER -> DetectString(conn, default)

\* address strings: a head, maybe after a leading character, and a tail
AddrHeads ==
    { <<>>, <<"1", ".", "1", ".", "1", ".", "1">>, <<"1", ".", "1", ".", "1">>,
      <<"1", "1", ".", "1", ".", "1", ".", "1", ":", "1">>,
      <<"c", "o", "m", "1">>, <<"C", "O", "M", "1">>, <<"c", "O", "m">>,
      <<"C", "O", "1">> }
AddrTailChars == {"1", ".", ":", "x"}
AddrStrings ==
    {pre \o head \o tail : pre \in {<<>>, <<"x">>}, head \in AddrHeads,
                           tail \in SeqsOf(AddrTailChars, 0, MaxTail)}

\* the elements of tuples and the values of dicts
IntChoices == {-1, 0, UsbIdLimit - 1, UsbIdLimit}
ElementChoices ==
    {StrV(pre \o head) : pre \in {<<>>, <<"x">>}, head \in AddrHeads}
    \cup {IntV(n) : n \in IntChoices} \cup {NoneV}
    \cup {SeqV(<<IntV(0), IntV(0)>>),
          DictV([k \in {"addr"} |-> StrV(<<"1", ".", "1", ".", "1", ".", "1">>)])}
DictValueChoices ==
    {StrV(<<"1", ".", "1", ".", "1", ".", "1">>), StrV(<<"C", "o", "m", "1">>),
     StrV(<<"x">>), IntV(1)}
DetectKeys == {"addr", "port", "vendorID", "productID"}

DetectConnChoices ==
    {StrV(chars) : chars \in AddrStrings}
    \cup {IntV(n) : n \in IntChoices} \cup {NoneV}
    \cup {SeqV(items) : items \in SeqsOf(ElementChoices, 0, MaxConnLen)}
    \cup {DictV(d) : d \in UNION {[D -> DictValueChoices] : D \in SUBSET DetectKeys}}

DetectInit ==
    /\ d_conn \in DetectConnChoices
    /\ d_default \in {"visa", "serial"}
    /\ d_res = None
    /\ d_pc = "init"

AutodetectBackend ==
    /\ d_pc = "init"
    /\ d_res' = autodetect_backend(d_conn, d_default)
    /\ d_pc' = "done"
    /\ UNCHANGED <<d_conn, d_default>>

InitDetect ==
    /\ DetectInit /\ TermIdle /\ LineIdle /\ TimeoutIdle /\ SerialIdle
    /\ OpsIdle /\ CoolIdle /\ ConnIdle /\ FactoryIdle /\ ReadIdle /\ CtorIdle
    /\ WriteIdle /\ LockIdle /\ OwnIdle /\ SeqIdle /\ RetryIdle /\ ParamsIdle
    /\ WheelIdle

NextDetect ==
    /\ AutodetectBackend
    /\ UNCHANGED <<termVars, lineVars, timeoutVars, serialVars, opsVars,
                   coolVars, connVars, factoryVars, readVars, ctorVars,
                   writeVars, lockVars, ownVars, seqVars, retryVars,
                   paramVars, wheelVars>>

SpecDetect == InitDetect /\ [][NextDetect]_vars

-----------------------------------------------------------------------------
(* SpecFactory: _as_backend, new_backend and list_backend_resources         *)

\* the characters of a backend name
KindChars(k) ==
    CASE k = "auto" -> <<"a", "u", "t", "o">>
      [] k = "visa" -> <<"v", "i", "s", "a">>
      [] k = "serial" -> <<"s", "e", "r", "i", "a", "l">>
      [] k = "ft232" -> <<"f", "t", "2", "3", "2">>
      [] k = "network" -> <<"n", "e", "t", "w", "o", "r", "k">>
      [] k = "pyusb" -> <<"p", "y", "u", "s", "b">>
      [] k = "custom" -> <<"c", "u", "s", "t", "o", "m">>
      [] k = "bogus" -> <<"b", "o", "g", "u", "s">>

\* a backend class (a subclass of IDeviceCommBackend) and a backend instance,
\* each with the kind of its class; "custom" is a class outside the registry
ClassV(k) == [type |-> "class", chars |-> KindChars(k), int |-> 0, items |-> <<>>, d |-> <<>>]
InstV(k) == [type |-> "inst", chars |-> KindChars(k), int |-> 0, items |-> <<>>, d |-> <<>>]

\* the kind whose name has these characters
KindOf(chars) ==
    CHOOSE k \in AllBackends \cup {"auto", "custom", "bogus"} : KindChars(k) = chars

\* `v in _backends`: v is a key of the registry
InRegistry(registry, v) ==
    v.type = "str" /\ \E k \in registry : v.chars = KindChars(k)

\* funcargparse.check_parameter_range(backend, "backend", _backends): whether
\* the value passes (it raises otherwise)
CheckParameterRange(registry, v) == InRegistry(registry, v)

\* how a call ended: "returned" with the instance it was given (what "same")
\* or a backend built by the constructor of class `kind` from `conn` (what
\* "new"); or "raised"; log: the constructors run
Returned(what, kind, conn, log) ==
    [status |-> "returned", what |-> what, kind |-> kind, conn |-> conn,
     log |-> log, error |-> None, listed |-> <<>>]
Raised(error) ==
    [status |-> "raised", what |-> None, kind |-> None, conn |-> NoneV,
     log |-> <<>>, error |-> error, listed |-> <<>>]

\* the defaults argument: None, or a dict from backend names to connection
\* parameters
NoDefaults == [given |-> FALSE, d |-> <<>>]
Defaults(d) == [given |-> TRUE, d |-> d]

\* _as_backend without the range check on the name
as_backend_unchecked(registry, backend, conn) ==
    LET detected == autodetect_backend(conn, "visa")
        b == IF backend = StrV(KindChars("auto"))
             THEN (IF detected = "raised" THEN NoneV
                   ELSE StrV(KindChars(detected)))
             ELSE backend
    IN  IF backend = StrV(KindChars("auto")) /\ detected = "raised"
        THEN "raised"
        ELSE KindOf(b.chars)

\* _as_backend(backend, conn): the kind of the class found, "invalid" when
\* the range check raises, "raised" when autodetection does
as_backend(registry, backend, conn) ==
    LET detected == autodetect_backend(conn, "visa")
        b == IF backend = StrV(KindChars("auto"))
             THEN (IF detected = "raised" THEN NoneV
                   ELSE StrV(KindChars(detected)))
             ELSE backend
    IN  IF backend = StrV(KindChars("auto")) /\ detected = "raised"
        THEN "raised"
        ELSE IF b.type = "class" THEN KindOf(b.chars)
        ELSE IF CheckParameterRange(registry, b) THEN KindOf(b.chars)
        ELSE "invalid"

\* connection parameters in the form _conn_to_dict looks at
AsConn(v) ==
    CASE v.type = "dict" -> DictConn(v.d)
      [] v.type = "seq" -> SeqConn(v.items)
      [] OTHER -> ScalarConn(v)

\* getattr(backend, "_backend", None)
BackendName(kind) == IF kind \in AllBackends THEN kind ELSE None

\* new_backend's last lines: merge the defaults and call the constructor
BuildBackend(kind, conn, defaults) ==
    LET name == BackendName(kind)
    IN  IF defaults.given /\ name # None /\ name \in DOMAIN defaults.d
        THEN Returned("new", kind,
                      DictV(combine_conn(kind, AsConn(conn),
                                         AsConn(defaults.d[name]))),
                      <<kind>>)
        ELSE Returned("new", kind, conn, <<kind>>)

\* the test on conn[0] of a tuple
IsKindOrClass(registry, v) == InRegistry(registry, v) \/ v.type = "class"

\* new_backend that resolves the backend before it looks at conn
new_backend_resolve_first(registry, conn, backend, defaults) ==
    LET kind == as_backend(registry, backend, conn)
    IN  IF kind = "raised" THEN Raised("IndexError")
        ELSE IF kind = "invalid" THEN Raised("validation")
        ELSE IF conn.type = "inst" THEN Returned("same", KindOf(conn.chars), conn, <<>>)
        ELSE BuildBackend(kind, conn, defaults)

\* new_backend in which a backend argument other than "auto" wins over the
\* kind of a pair
RECURSIVE new_backend_argument_wins(_, _, _, _)
new_backend_argument_wins(registry, conn, backend, defaults) ==
    IF conn.type = "inst"
    THEN Returned("same", KindOf(conn.chars), conn, <<>>)
    ELSE IF conn.type = "seq" /\ conn.items # <<>>
            /\ IsKindOrClass(registry, conn.items[1])
    THEN IF Len(conn.items) < 2 THEN Raised("IndexError")
         ELSE new_backend_argument_wins(registry, conn.items[2],
                  IF backend = StrV(KindChars("auto")) THEN conn.items[1]
                  ELSE backend, NoDefaults)
    ELSE LET kind == as_backend(registry, backend, conn)
         IN  IF kind = "raised" THEN Raised("IndexError")
             ELSE IF kind = "invalid" THEN Raised("validation")
             ELSE BuildBackend(kind, conn, defaults)

\* new_backend(conn, backend, defaults)
RECURSIVE new_backend(_, _, _, _)
new_backend(registry, conn, backend, defaults) ==
    IF conn.type = "inst"
    THEN Returned("same", KindOf(conn.chars), conn, <<>>)
    ELSE IF conn.type = "seq" /\ conn.items # <<>>
            /\ IsKindOrClass(registry, conn.items[1])
    THEN IF Len(conn.items) < 2 THEN Raised("IndexError")
         ELSE new_backend(registry, conn.items[2], conn.items[1], NoDefaults)
    ELSE LET kind == as_backend(registry, backend, conn)
         IN  IF kind = "raised" THEN Raised("IndexError")
             ELSE IF kind = "invalid" THEN Raised("validation")
             ELSE BuildBackend(kind, conn, defaults)

\* what a class's list_resources gives: "none" for the base method's None,
\* "empty" or "some" for a list; it may raise in the transport library
ListOutcomes(kind) ==
    CASE kind = "network" -> {"none"}
      [] kind = "serial" -> {"none", "empty", "some"}
      [] OTHER -> {"empty", "some", "raises"}

ListReturned(value) ==
    [status |-> "returned", what |-> "list", kind |-> None, conn |-> NoneV,
     log |-> <<>>, error |-> None, listed |-> value]

\* list_backend_resources that keeps the kinds that cannot list
list_backend_resources_unfiltered(registry, backend, listing) ==
    IF backend = NoneV
    THEN IF \E n \in registry : listing[n] = "raises" THEN Raised("transport")
         ELSE ListReturned([n \in registry |-> listing[n]])
    ELSE LET kind == as_backend(registry, backend, NoneV)
         IN  IF kind = "invalid" THEN Raised("validation")
             ELSE IF kind \notin registry THEN ListReturned("none")
             ELSE IF listing[kind] = "raises" THEN Raised("transport")
             ELSE ListReturned(listing[kind])

\* list_backend_resources(backend); listing: what each registered class's
\* list_resources gives
list_backend_resources(registry, backend, listing) ==
    IF backend = NoneV
    THEN IF \E n \in registry : listing[n] = "raises" THEN Raised("transport")
         ELSE ListReturned([n \in {m \in registry : listing[m] # "none"} |->
                               listing[n]])
    ELSE LET kind == as_backend(registry, backend, NoneV)
         IN  IF kind = "invalid" THEN Raised("validation")
             ELSE IF kind \notin registry THEN ListReturned("none")
             ELSE IF listing[kind] = "raises" THEN Raised("transport")
             ELSE ListReturned(listing[kind])

\* the arguments a caller passes
IpString == StrV(<<"1", ".", "1", ".", "1", ".", "1">>)
ComString == StrV(<<"C", "O", "M", "1">>)
BareConns ==
    {IpString, ComString, StrV(<<"x">>), NoneV, SeqV(<<>>),
     SeqV(<<IntV(0), IntV(0)>>), SeqV(<<ComString, IntV(1)>>),
     DictV([k \in {"addr"} |-> IpString])}
ClassesOf(registry) == {ClassV(k) : k \in registry \cup {"custom"}}
InstancesOf(registry) == {InstV(k) : k \in registry \cup {"custom"}}
NameStrings == {StrV(KindChars(k)) : k \in AllBackends \cup {"bogus"}}
PairConns(registry) ==
    {SeqV(<<first, second>>) :
        first \in NameStrings \cup ClassesOf(registry),
        second \in {IpString, ComString, SeqV(<<ComString, IntV(1)>>)}
                   \cup InstancesOf(registry)}
    \cup {SeqV(<<first>>) : first \in NameStrings}
BackendArgs(registry) ==
    NameStrings \cup {StrV(KindChars("auto"))} \cup ClassesOf(registry)
DefaultsChoices ==
    {NoDefaults,
     Defaults([k \in {"serial"} |-> SeqV(<<StrV(<<"x">>), IntV(1)>>)]),
     Defaults([k \in {"serial", "network"} |->
                  IF k = "serial" THEN DictV([f \in {"baudrate"} |-> IntV(1)])
                  ELSE DictV([f \in {"port"} |-> IntV(1)])]),
     Defaults([k \in {"visa"} |-> StrV(<<"x">>)])}

Call(fn, conn, backend, defaults, listing) ==
    [fn |-> fn, conn |-> conn, backend |-> backend, defaults |-> defaults,
     listing |-> listing]

\* after import: network is always registered, the other kinds when their
\* library could be imported; a caller may hold an open or closed instance
FactoryInit ==
    /\ f_registry \in {R \cup {"network"} :
                          R \in SUBSET {"visa", "serial", "ft232", "pyusb"}}
    /\ f_opened \in BOOLEAN
    /\ f_call = Call("none", NoneV, NoneV, NoDefaults, <<>>)
    /\ f_res = Raised(None)
    /\ f_pc = "init"

NewBackend(conn, backend, defaults) ==
    /\ f_pc = "init"
    /\ f_call' = Call("new_backend", conn, backend, defaults, <<>>)
    /\ f_res' = new_backend(f_registry, conn, backend, defaults)
    /\ f_pc' = "done"
    /\ UNCHANGED <<f_registry, f_opened>>

ListBackendResources(backend, listing) ==
    /\ f_pc = "init"
    /\ f_call' = Call("list_backend_resources", NoneV, backend, NoDefaults,
                      listing)
    /\ f_res' = list_backend_resources(f_registry, backend, listing)
    /\ f_pc' = "done"
    /\ UNCHANGED <<f_registry, f_opened>>

InitFactory ==
    /\ FactoryInit /\ TermIdle /\ LineIdle /\ TimeoutIdle /\ SerialIdle
    /\ OpsIdle /\ CoolIdle /\ ConnIdle /\ DetectIdle /\ ReadIdle /\ CtorIdle
    /\ WriteIdle /\ LockIdle /\ OwnIdle /\ SeqIdle /\ RetryIdle /\ ParamsIdle
    /\ WheelIdle

NextFactory ==
    /\ f_pc = "init"
    /\ \/ \E conn \in BareConns \cup InstancesOf(f_registry)
                      \cup PairConns(f_registry) :
          \E backend \in BackendArgs(f_registry) :
          \E defaults \in DefaultsChoices : NewBackend(conn, backend, defaults)
       \/ \E backend \in BackendArgs(f_registry) \cup {NoneV} :
          \E listing \in [f_registry -> UNION {ListOutcomes(k) : k \in f_registry}] :
              /\ \A k \in f_registry : listing[k] \in ListOutcomes(k)
              /\ ListBackendResources(backend, listing)
    /\ UNCHANGED <<termVars, lineVars, timeoutVars, serialVars, opsVars,
                   coolVars, connVars, detectVars, readVars, ctorVars,
                   writeVars, lockVars, ownVars, seqVars, retryVars,
                   paramVars, wheelVars>>

SpecFactory == InitFactory /\ [][NextFactory]_vars

-----------------------------------------------------------------------------
(* SpecRead: read, readline and read_multichar_term of every backend, with  *)
(* the length and the type of what they return                              *)

\* bytes on the transport
ReadBytes == {"a", "n"}

Datatypes == {"auto", "str", "bytes"}

\* what a transport read yields: bytes that went through no conversion
RawBytes(data) == [data |-> data, type |-> "bytes", through |-> FALSE]

\* py3.as_str and py3.as_bytes: text and bytes of the same length
AsStr(v) == [v EXCEPT !.type = "str"]
AsBytes(v) == [v EXCEPT !.type = "bytes"]

\* IDeviceCommBackend._to_datatype; through: the value passed through it
to_datatype(datatype, v) ==
    LET w == [v EXCEPT !.through = TRUE]
    IN  IF datatype = "auto" THEN w
        ELSE IF datatype = "str" THEN AsStr(w)
        ELSE AsBytes(w)

\* how a read call ended: it returned a value, raised self.Error, or waits
\* for bytes that never come
ReadReturned(v) == [status |-> "returned", value |-> v]
ReadRaised == [status |-> "raised", value |-> RawBytes(<<>>)]
ReadWaits == [status |-> "waits", value |-> RawBytes(<<>>)]

\* VisaDeviceBackend._read_raw(size): size bytes, or the timeout error
VisaReadRaw(stream, size) ==
    IF Len(stream) >= size THEN ReadOutcome(FALSE, TakeN(stream, size), <<>>)
    ELSE ReadOutcome(TRUE, <<>>, <<>>)

\* instr.read_raw(): one message, up to and including the termination
\* character when one is set; the timeout error when the message has no end
VisaInstrReadRaw(term, stream) ==
    IF term = <<>>
    THEN ReadOutcome(stream = <<>>, stream, <<>>)
    ELSE SerialReadLoop(<<term>>, stream, <<>>, TRUE)

\* VisaDeviceBackend.read
VisaRead(datatype, stream, size) ==
    IF size = NoneT
    THEN ReadReturned(to_datatype(datatype, RawBytes(stream)))
    ELSE LET r == VisaReadRaw(stream, size)
         IN  IF r.raised THEN ReadRaised
             ELSE ReadReturned(to_datatype(datatype, RawBytes(r.res)))

\* SerialDeviceBackend.read that returns whatever instr.read gave
SerialReadShort(datatype, stream, size, error_on_timeout) ==
    IF size = NoneT
    THEN LET r == SerialReadTerms(<<>>, stream, error_on_timeout)
         IN  IF r.raised THEN ReadRaised
             ELSE ReadReturned(to_datatype(datatype, RawBytes(r.res)))
    ELSE ReadReturned(to_datatype(datatype, RawBytes(TakeN(stream, size))))

\* SerialDeviceBackend.read
SerialRead(datatype, stream, size, error_on_timeout) ==
    IF size = NoneT
    THEN LET r == SerialReadTerms(<<>>, stream, error_on_timeout)
         IN  IF r.raised THEN ReadRaised
             ELSE ReadReturned(to_datatype(datatype, RawBytes(r.res)))
    ELSE LET result == TakeN(stream, size)
         IN  IF Len(result) # size THEN ReadRaised
             ELSE ReadReturned(to_datatype(datatype, RawBytes(result)))

\* FT232DeviceBackend.read
FT232Read(datatype, stream, size, error_on_timeout) ==
    IF size = NoneT
    THEN LET r == FT232ReadTerms(<<>>, stream, error_on_timeout)
         IN  IF r.raised THEN ReadRaised
             ELSE ReadReturned(to_datatype(datatype, RawBytes(r.res)))
    ELSE LET result == TakeN(stream, size)
         IN  IF Len(result) # size THEN ReadRaised
             ELSE ReadReturned(to_datatype(datatype, RawBytes(result)))

\* socket.recv_fixedlen(size): size bytes, or the timeout error
RecvFixedlen(stream, size) ==
    IF Len(stream) >= size THEN ReadOutcome(FALSE, TakeN(stream, size), <<>>)
    ELSE ReadOutcome(TRUE, <<>>, <<>>)

\* socket.recv_all(): the bytes that have arrived
RecvAll(stream) == stream

\* NetworkDeviceBackend.read
NetworkRead(datatype, stream, size) ==
    IF size = NoneT
    THEN ReadReturned(RawBytes(RecvAll(stream)))
    ELSE LET r == RecvFixedlen(stream, size)
         IN  IF r.raised THEN ReadRaised
             ELSE ReadReturned(to_datatype(datatype, RawBytes(r.res)))

\* PyUSBDeviceBackend.read
PyUSBRead(datatype, check_read_size, stream, size, error_on_timeout) ==
    IF size = NoneT
    THEN LET r == PyUSBReadTerms(<<>>, stream, error_on_timeout)
         IN  IF r.raised THEN ReadRaised
             ELSE ReadReturned(to_datatype(datatype, RawBytes(r.res)))
    ELSE LET result == TakeN(stream, size)
         IN  IF Len(result) # size /\ check_read_size THEN ReadRaised
             ELSE ReadReturned(to_datatype(datatype, RawBytes(result)))

\* read(size) of a backend
BackendRead(backend, datatype, check_read_size, stream, size, error_on_timeout) ==
    CASE backend = "visa" -> VisaRead(datatype, stream, size)
      [] backend = "serial" -> SerialRead(datatype, stream, size, error_on_timeout)
      [] backend = "ft232" -> FT232Read(datatype, stream, size, error_on_timeout)
      [] backend = "network" -> NetworkRead(datatype, stream, size)
      [] backend = "pyusb" ->
            PyUSBRead(datatype, check_read_size, stream, size, error_on_timeout)

\* VisaDeviceBackend.readline: the termination character is the instrument's
RECURSIVE VisaReadline(_, _, _, _, _)
VisaReadline(datatype, term, stream, remove_term, skip_empty) ==
    LET r == VisaInstrReadRaw(term, stream)
        result == IF remove_term /\ term # <<>> /\ EndsWith(r.res, term)
                  THEN SubSeq(r.res, 1, Len(r.res) - Len(term))
                  ELSE r.res
    IN  IF r.raised THEN ReadRaised
        ELSE IF (~skip_empty) \/ result # <<>>
        THEN ReadReturned(to_datatype(datatype, RawBytes(result)))
        ELSE VisaReadline(datatype, term, r.rest, remove_term, skip_empty)

\* readline of the serial, ft232, pyusb and network backends: the while loop
\* from the bytes left on the transport
RECURSIVE ReadlineLoop(_, _, _, _, _, _, _)
ReadlineLoop(backend, datatype, terms, stream, remove_term, skip_empty, eot) ==
    LET r == ReadUntilTerm(backend, terms, stream, eot)
        result == IF remove_term /\ terms # <<>>
                  THEN remove_longest_term(r.res, terms)
                  ELSE r.res
    IN  IF r.raised THEN ReadRaised
        ELSE IF ~(skip_empty /\ remove_term /\ result = <<>>)
        THEN ReadReturned(to_datatype(datatype, RawBytes(result)))
        ELSE IF r.res = <<>> THEN ReadWaits
        ELSE ReadlineLoop(backend, datatype, terms, r.rest, remove_term,
                          skip_empty, eot)

\* readline of a backend
BackendReadline(backend, datatype, terms, stream, remove_term, skip_empty, eot) ==
    IF backend = "visa"
    THEN VisaReadline(datatype, IF terms = <<>> THEN <<>> ELSE terms[1],
                      stream, remove_term, skip_empty)
    ELSE ReadlineLoop(backend, datatype, terms, stream, remove_term,
                      skip_empty, eot)

\* read_multichar_term of the serial, ft232, pyusb and network backends
read_multichar_term(backend, datatype, term, stream, remove_term, eot) ==
    LET r == ReadUntilTerm(backend, term, stream, eot)
        result == IF remove_term /\ term # <<>>
                  THEN remove_longest_term(r.res, term)
                  ELSE r.res
    IN  IF r.raised THEN ReadRaised
        ELSE ReadReturned(to_datatype(datatype, RawBytes(result)))

\* the transport call itself may raise the library's error, which is the
\* backend's Error class
Outcome(fails, res) == IF fails THEN ReadRaised ELSE res

\* the visa and network reads take no error_on_timeout argument
ReadErrorOnTimeoutChoices(backend) ==
    IF backend \in {"visa", "network"} THEN {TRUE} ELSE BOOLEAN

\* the terminators a backend is built with, and those handed to
\* read_multichar_term
ReadTermChoices == {<<>>, <<LF>>}
MulticharTermChoices == {<<LF>>, <<CRLF>>, <<>>}

\* streams that fill one block of a read without terminators, and more
LongStreams ==
    {[i \in 1..n |-> "a"] : n \in SerialBlock..(SerialBlock + MaxStream)}

\* a backend of any class and datatype; check_read_size is an argument of
\* the pyusb backend alone
ReadInit ==
    /\ r_backend \in AllBackends
    /\ r_datatype \in Datatypes
    /\ r_check \in (IF r_backend = "pyusb" THEN BOOLEAN ELSE {TRUE})
    /\ r_term_read \in ReadTermChoices
    /\ r_stream \in SeqsOf(ReadBytes, 0, MaxStream) \cup LongStreams
    /\ r_call = [op |-> "none", size |-> NoneT, fails |-> FALSE,
                 error_on_timeout |-> TRUE]
    /\ r_res = ReadRaised
    /\ r_pc = "init"

Read(size, error_on_timeout, fails) ==
    /\ r_pc = "init"
    /\ r_call' = [op |-> "read", size |-> size, fails |-> fails,
                  error_on_timeout |-> error_on_timeout]
    /\ r_res' = Outcome(fails, BackendRead(r_backend, r_datatype, r_check,
                                           r_stream, size, error_on_timeout))
    /\ r_pc' = "done"
    /\ UNCHANGED <<r_backend, r_datatype, r_check, r_term_read, r_stream>>

Readline(remove_term, skip_empty, error_on_timeout, fails) ==
    /\ r_pc = "init"
    /\ r_call' = [op |-> "readline", size |-> NoneT, fails |-> fails,
                  error_on_timeout |-> error_on_timeout]
    /\ r_res' = Outcome(fails, BackendReadline(r_backend, r_datatype,
                            r_term_read, r_stream, remove_term, skip_empty,
                            error_on_timeout))
    /\ r_pc' = "done"
    /\ UNCHANGED <<r_backend, r_datatype, r_check, r_term_read, r_stream>>

ReadMulticharTerm(term, remove_term, error_on_timeout, fails) ==
    /\ r_pc = "init"
    /\ r_backend # "visa"
    /\ r_call' = [op |-> "read_multichar_term", size |-> NoneT,
                  fails |-> fails, error_on_timeout |-> error_on_timeout]
    /\ r_res' = Outcome(fails, read_multichar_term(r_backend, r_datatype, term,
                            r_stream, remove_term, error_on_timeout))
    /\ r_pc' = "done"
    /\ UNCHANGED <<r_backend, r_datatype, r_check, r_term_read, r_stream>>

InitRead ==
    /\ ReadInit /\ TermIdle /\ LineIdle /\ TimeoutIdle /\ SerialIdle
    /\ OpsIdle /\ CoolIdle /\ ConnIdle /\ DetectIdle /\ FactoryIdle
    /\ CtorIdle /\ WriteIdle /\ LockIdle /\ OwnIdle /\ SeqIdle /\ RetryIdle
    /\ ParamsIdle /\ WheelIdle

NextRead ==
    /\ r_pc = "init"
    /\ \/ \E size \in (0..MaxSize) \cup {NoneT}, fails \in BOOLEAN :
          \E error_on_timeout \in ReadErrorOnTimeoutChoices(r_backend) :
              Read(size, error_on_timeout, fails)
       \/ \E remove_term \in BOOLEAN, skip_empty \in BOOLEAN,
             fails \in BOOLEAN :
          \E error_on_timeout \in ReadErrorOnTimeoutChoices(r_backend) :
              Readline(remove_term, skip_empty, error_on_timeout, fails)
       \/ \E term \in MulticharTermChoices, remove_term \in BOOLEAN,
             fails \in BOOLEAN :
          \E error_on_timeout \in ReadErrorOnTimeoutChoices(r_backend) :
              ReadMulticharTerm(term, remove_term, error_on_timeout, fails)
    /\ UNCHANGED <<termVars, lineVars, timeoutVars, serialVars, opsVars,
                   coolVars, connVars, detectVars, factoryVars, ctorVars,
                   writeVars, lockVars, ownVars, seqVars, retryVars,
                   paramVars, wheelVars>>

SpecRead == InitRead /\ [][NextRead]_vars

-----------------------------------------------------------------------------
(* SpecCtor: the constructors of the backends: how the connection          *)
(* parameters are read and how a failure to open the transport surfaces    *)

\* the characters of an address: a digit, the colon, another character
AddrChars == {"1", ":", "x"}

\* the port a caller may supply
PortChoices == {80}

\* str.split(":") from the piece `cur` collected so far
RECURSIVE SplitLoop(_, _)
SplitLoop(s, cur) ==
    IF s = <<>> THEN <<cur>>
    ELSE IF Head(s) = ":" THEN <<cur>> \o SplitLoop(Tail(s), <<>>)
    ELSE SplitLoop(Tail(s), Append(cur, Head(s)))

Split(s) == SplitLoop(s, <<>>)

\* int(text) for text of the address characters: the value, or -1 where int
\* raises ValueError
RECURSIVE IntLoop(_, _)
IntLoop(text, acc) ==
    IF text = <<>> THEN acc
    ELSE IF IsDigit(Head(text)) THEN IntLoop(Tail(text), 10 * acc + 1)
    ELSE NoneT

ParseInt(text) == IF text = <<>> THEN NoneT ELSE IntLoop(text, 0)

\* the outcome of a constructor; stage: "args" while the arguments are read,
\* "open" once the transport is being opened; conn: self.conn; log: the
\* transport objects made and calls placed
CtorReturned(conn, log) ==
    [status |-> "returned", error |-> None, stage |-> "open", conn |-> conn,
     log |-> log]
CtorRaised(error, stage, conn, log) ==
    [status |-> "raised", error |-> error, stage |-> stage, conn |-> conn,
     log |-> log]

\* how _split_addr ends: the dict after it, or ValueError raised
SplitDone(conn) == [raised |-> FALSE, conn |-> conn]
SplitRaised == [raised |-> TRUE, conn |-> <<>>]

\* _split_addr that leaves a port the caller supplied in place
split_addr_keep_port(conn) ==
    LET addr_split == Split(conn["addr"])
    IN  IF Len(addr_split) = 2
        THEN IF ParseInt(addr_split[2]) = NoneT THEN SplitRaised
             ELSE IF "port" \in DOMAIN conn
             THEN SplitDone(Updated(conn, [k \in {"addr"} |-> addr_split[1]]))
             ELSE SplitDone(Updated(conn, [k \in {"addr", "port"} |->
                                    IF k = "addr" THEN addr_split[1]
                                    ELSE ParseInt(addr_split[2])]))
        ELSE IF Len(addr_split) > 2 THEN SplitRaised
        ELSE SplitDone(conn)

\* NetworkDeviceBackend._split_addr
split_addr(conn) ==
    LET addr_split == Split(conn["addr"])
    IN  IF Len(addr_split) = 2
        THEN IF ParseInt(addr_split[2]) = NoneT THEN SplitRaised
             ELSE SplitDone(Updated(conn, [k \in {"addr", "port"} |->
                                    IF k = "addr" THEN addr_split[1]
                                    ELSE ParseInt(addr_split[2])]))
        ELSE IF Len(addr_split) > 2 THEN SplitRaised
        ELSE SplitDone(conn)

\* NetworkDeviceBackend.open inside the constructor's try block
NetworkOpen(conn, fails) ==
    IF "port" \notin DOMAIN conn
    THEN CtorRaised("KeyError", "open", conn, <<"socket">>)
    ELSE IF fails
    THEN CtorRaised("BackendOpenError", "open", conn, <<"socket", "connect">>)
    ELSE CtorReturned(conn, <<"socket", "connect">>)

\* NetworkDeviceBackend.__init__
NetworkCtor(conn, fails) ==
    LET d == ConnToDict("network", conn)
    IN  IF "addr" \notin DOMAIN d
        THEN CtorRaised("KeyError", "args", d, <<>>)
        ELSE LET split == split_addr(d)
             IN  IF split.raised
                 THEN CtorRaised("ValueError", "args", d, <<>>)
                 ELSE NetworkOpen(split.conn, fails)

\* VisaDeviceBackend.__init__, SerialDeviceBackend.__init__ and
\* FT232DeviceBackend.__init__: the transport's error is caught and wrapped
VisaCtor(fails) ==
    IF fails THEN CtorRaised("BackendOpenError", "open", <<>>, <<"open_resource">>)
    ELSE CtorReturned(<<>>, <<"open_resource">>)
SerialCtor(connect_on_operation, fails) ==
    IF connect_on_operation THEN CtorReturned(<<>>, <<"serial_for_url">>)
    ELSE IF fails
    THEN CtorRaised("BackendOpenError", "open", <<>>, <<"serial_for_url", "open">>)
    ELSE CtorReturned(<<>>, <<"serial_for_url", "open">>)
FT232Ctor(fails) ==
    IF fails THEN CtorRaised("BackendOpenError", "open", <<>>, <<"Ft232">>)
    ELSE CtorReturned(<<>>, <<"Ft232">>)

\* PyUSBBackendOpenError(e) reads e.args: built from an exception it is the
\* open error, built from a message string the attribute lookup fails
PyUSBBackendOpenError(from_exception) ==
    IF from_exception THEN "BackendOpenError" ELSE "AttributeError"

\* PyUSBDeviceBackend.open: the error that leaves it ("Error" for the
\* usb.USBError of the search), None when it returns
PyUSBOpen(idx, found, fails) ==
    IF fails THEN "Error"
    ELSE IF found < idx + 1 THEN PyUSBBackendOpenError(FALSE)
    ELSE None

\* PyUSBDeviceBackend.__init__: a usb.USBError that leaves open is caught
\* and wrapped, PyUSBBackendOpenError being one
PyUSBCtor(idx, found, fails) ==
    LET e == PyUSBOpen(idx, found, fails)
    IN  IF e \in {"Error", "BackendOpenError"}
        THEN CtorRaised(PyUSBBackendOpenError(TRUE), "open", <<>>, <<"find">>)
        ELSE IF e # None THEN CtorRaised(e, "open", <<>>, <<"find">>)
        ELSE CtorReturned(<<>>, <<"find">>)

\* the conn arguments given to the network backend
NetworkAddrs == SeqsOf(AddrChars, 0, MaxAddrLen)
NetworkConns ==
    {ScalarConn(a) : a \in NetworkAddrs}
    \cup {SeqConn(<<a, p>>) : a \in NetworkAddrs, p \in PortChoices}
    \cup {DictConn([k \in {"addr"} |-> a]) : a \in NetworkAddrs}
    \cup {DictConn([k \in {"port"} |-> p]) : p \in PortChoices}

CtorCall(cls, conn, idx) == [cls |-> cls, conn |-> conn, idx |-> idx]

\* the transport before the constructor runs
CtorInit ==
    /\ x_fails \in BOOLEAN
    /\ x_found \in 0..MaxDevices
    /\ x_call = CtorCall("none", ScalarConn(<<>>), 0)
    /\ x_res = CtorRaised(None, "args", <<>>, <<>>)
    /\ x_pc = "init"

NewVisa ==
    /\ x_call' = CtorCall("visa", ScalarConn(<<>>), 0)
    /\ x_res' = VisaCtor(x_fails)

NewSerial(connect_on_operation) ==
    /\ x_call' = CtorCall("serial", ScalarConn(<<>>), 0)
    /\ x_res' = SerialCtor(connect_on_operation, x_fails)

NewFT232 ==
    /\ x_call' = CtorCall("ft232", ScalarConn(<<>>), 0)
    /\ x_res' = FT232Ctor(x_fails)

NewNetwork(conn) ==
    /\ x_call' = CtorCall("network", conn, 0)
    /\ x_res' = NetworkCtor(conn, x_fails)

NewPyUSB(idx) ==
    /\ x_call' = CtorCall("pyusb", ScalarConn(<<>>), idx)
    /\ x_res' = PyUSBCtor(idx, x_found, x_fails)

InitCtor ==
    /\ CtorInit /\ TermIdle /\ LineIdle /\ TimeoutIdle /\ SerialIdle
    /\ OpsIdle /\ CoolIdle /\ ConnIdle /\ DetectIdle /\ FactoryIdle
    /\ ReadIdle /\ WriteIdle /\ LockIdle /\ OwnIdle /\ SeqIdle /\ RetryIdle
    /\ ParamsIdle /\ WheelIdle

NextCtor ==
    /\ x_pc = "init"
    /\ x_pc' = "done"
    /\ \/ NewVisa
       \/ \E connect_on_operation \in BOOLEAN : NewSerial(connect_on_operation)
       \/ NewFT232
       \/ \E conn \in NetworkConns : NewNetwork(conn)
       \/ \E idx \in 0..MaxDevices : NewPyUSB(idx)
    /\ UNCHANGED <<x_fails, x_found>>
    /\ UNCHANGED <<termVars, lineVars, timeoutVars, serialVars, opsVars,
                   coolVars, connVars, detectVars, factoryVars, readVars,
                   writeVars, lockVars, ownVars, seqVars, retryVars,
                   paramVars, wheelVars>>

SpecCtor == InitCtor /\ [][NextCtor]_vars

-----------------------------------------------------------------------------
(* SpecWrite: write of the serial and ft232 backends as the sequence of    *)
(* transport calls, cooldowns and echo reads it makes                      *)

\* data as the caller passes it: text or bytes
TextOf(chars) == [type |-> "str", chars |-> chars]
BytesOf(chars) == [type |-> "bytes", chars |-> chars]

\* py3.as_builtin_bytes: the bytes of a text or bytes value
as_builtin_bytes(v) == BytesOf(v.chars)

\* the entries of the log
Transmit(data) == [op |-> "instr.write", data |-> data]
Event(op) == [op |-> op, data |-> BytesOf(<<>>)]

\* the echo loop: read_echo_lines readline calls, cut short by the one that
\* raises (fail_at; 0: none does)
RECURSIVE EchoReads(_, _, _)
EchoReads(i, read_echo_lines, fail_at) ==
    IF i > read_echo_lines THEN <<>>
    ELSE IF i = fail_at THEN <<Event("readline")>>
    ELSE <<Event("readline")>> \o EchoReads(i + 1, read_echo_lines, fail_at)

\* the body of write after the transmit, from the flush on
AfterTransmit(flush, read_echo, read_echo_delay, read_echo_lines, fail_at) ==
    (IF flush THEN <<Event("instr.flush"), Event("cooldown:flush")>> ELSE <<>>)
    \o (IF read_echo_delay > 0 THEN <<Event("sleep")>> ELSE <<>>)
    \o (IF read_echo THEN EchoReads(1, read_echo_lines, fail_at) ELSE <<>>)

\* SerialDeviceBackend.write that flushes before it transmits
SerialWriteFlushFirst(term_write, data, flush, read_echo, read_echo_delay, read_echo_lines, fail_at) ==
    LET bytes == as_builtin_bytes(data)
        sent == IF term_write.chars # <<>>
                THEN BytesOf(bytes.chars \o as_builtin_bytes(term_write).chars)
                ELSE bytes
    IN  (IF flush THEN <<Event("instr.flush"), Event("cooldown:flush")>> ELSE <<>>)
        \o <<Transmit(sent), Event("cooldown:write")>>
        \o AfterTransmit(FALSE, read_echo, read_echo_delay, read_echo_lines,
                         fail_at)

\* SerialDeviceBackend.write: the log of the call
SerialWrite(term_write, data, flush, read_echo, read_echo_delay, read_echo_lines, fail_at) ==
    LET bytes == as_builtin_bytes(data)
        sent == IF term_write.chars # <<>>
                THEN BytesOf(bytes.chars \o as_builtin_bytes(term_write).chars)
                ELSE bytes
    IN  <<Transmit(sent), Event("cooldown:write")>>
        \o AfterTransmit(flush, read_echo, read_echo_delay, read_echo_lines,
                         fail_at)

\* FT232DeviceBackend.write: the log of the call
FT232Write(term_write, data, flush, read_echo, read_echo_delay, read_echo_lines, fail_at) ==
    LET bytes == as_builtin_bytes(data)
        sent == IF term_write.chars # <<>>
                THEN BytesOf(bytes.chars \o as_builtin_bytes(term_write).chars)
                ELSE bytes
    IN  <<Transmit(sent), Event("cooldown:write")>>
        \o AfterTransmit(flush, read_echo, read_echo_delay, read_echo_lines,
                         fail_at)

\* the terminators a backend is built with (empty: none is appended) and the
\* data written
TermWriteChoices ==
    {BytesOf(<<>>), BytesOf(CRLF), TextOf(LF)}
DataChoices ==
    {TextOf(c) : c \in SeqsOf({"a", "n"}, 0, MaxData)}
    \cup {BytesOf(c) : c \in SeqsOf({"a", "n"}, 0, MaxData)}

WriteInit ==
    /\ w_backend \in {"serial", "ft232"}
    /\ w_term_write \in TermWriteChoices
    /\ w_call = [op |-> "none"]
    /\ w_log = <<>>
    /\ w_res = "none"
    /\ w_pc = "init"

\* write(data, flush, read_echo, read_echo_delay, read_echo_lines); an echo
\* readline may raise its timeout error
Write(data, flush, read_echo, read_echo_delay, read_echo_lines, fail_at) ==
    /\ w_pc = "init"
    /\ w_call' = [op |-> "write", data |-> data, flush |-> flush,
                  read_echo |-> read_echo, read_echo_delay |-> read_echo_delay,
                  read_echo_lines |-> read_echo_lines]
    /\ w_log' = IF w_backend = "serial"
                THEN SerialWrite(w_term_write, data, flush, read_echo,
                                 read_echo_delay, read_echo_lines, fail_at)
                ELSE FT232Write(w_term_write, data, flush, read_echo,
                                read_echo_delay, read_echo_lines, fail_at)
    /\ w_res' = IF read_echo /\ fail_at \in 1..read_echo_lines
                THEN "raised" ELSE "returned"
    /\ w_pc' = "done"
    /\ UNCHANGED <<w_backend, w_term_write>>

InitWrite ==
    /\ WriteInit /\ TermIdle /\ LineIdle /\ TimeoutIdle /\ SerialIdle
    /\ OpsIdle /\ CoolIdle /\ ConnIdle /\ DetectIdle /\ FactoryIdle
    /\ ReadIdle /\ CtorIdle /\ LockIdle /\ OwnIdle /\ SeqIdle /\ RetryIdle
    /\ ParamsIdle /\ WheelIdle

NextWrite ==
    /\ w_pc = "init"
    /\ \E data \in DataChoices, flush \in BOOLEAN, read_echo \in BOOLEAN,
          read_echo_delay \in {0, 1}, read_echo_lines \in 0..MaxEchoLines,
          fail_at \in 0..MaxEchoLines :
          Write(data, flush, read_echo, read_echo_delay, read_echo_lines,
                fail_at)
    /\ UNCHANGED <<termVars, lineVars, timeoutVars, serialVars, opsVars,
                   coolVars, connVars, detectVars, factoryVars, readVars,
                   ctorVars, lockVars, ownVars, seqVars, retryVars, paramVars,
                   wheelVars>>

SpecWrite == InitWrite /\ [][NextWrite]_vars

-----------------------------------------------------------------------------
(* SpecLock: lock, unlock and locking of the visa backend, one step per    *)
(* call frame                                                              *)

\* do_lock as given to the constructor, and self._do_lock:
\* do_lock if do_lock is not None else self._lock_default
DoLockChoices == {"None", "True", "False"}
LockDefault == FALSE
DoLock(do_lock) == IF do_lock = "None" THEN LockDefault ELSE do_lock = "True"

LockCall(op, timeout, status, error, made) ==
    [op |-> op, timeout |-> timeout, status |-> status, error |-> error,
     made |-> made]

LockInit ==
    /\ \E do_lock \in DoLockChoices : v_do_lock = DoLock(do_lock)
    /\ v_old \in BOOLEAN
    /\ v_frames = 0
    /\ v_ctx = <<>>
    /\ v_call = LockCall("init", NoneT, "returned", None, <<>>)
    /\ v_log = <<>>
    /\ v_pc = "idle"

\* lock(timeout) or unlock() is called: with _do_lock unset it returns, with
\* it set the body calls the method again
CallLockOrUnlock(op, timeout) ==
    /\ v_pc = "idle"
    /\ Len(v_log) < MaxLockCalls
    /\ IF v_do_lock
       THEN /\ v_pc' = op
            /\ v_frames' = 1
            /\ v_call' = LockCall(op, timeout, "running", None, <<>>)
       ELSE /\ v_pc' = "idle"
            /\ v_frames' = 0
            /\ v_call' = LockCall(op, timeout, "returned", None, <<>>)
    /\ UNCHANGED <<v_do_lock, v_old, v_ctx, v_log>>

Lock(timeout) == CallLockOrUnlock("lock", timeout)
Unlock == CallLockOrUnlock("unlock", NoneT)

\* the body of lock or unlock with _do_lock set: self.lock(timeout=timeout),
\* self.unlock(); one more frame, until the interpreter refuses
Reenter ==
    /\ v_pc \in {"lock", "unlock"}
    /\ IF v_frames < RecursionLimit
       THEN /\ v_frames' = v_frames + 1
            /\ UNCHANGED <<v_pc, v_call>>
       ELSE /\ v_frames' = 0
            /\ v_pc' = "idle"
            /\ v_call' = LockCall(v_call.op, v_call.timeout, "raised", "RecursionError", <<>>)
    /\ UNCHANGED <<v_do_lock, v_old, v_ctx, v_log>>

\* locking(timeout) entered by a with statement: the session's lock context
\* with _do_lock set (not implemented before pyvisa 1.6), a dummy otherwise
EnterLocking(timeout) ==
    /\ v_pc = "idle"
    /\ Len(v_ctx) < MaxNest
    /\ Len(v_log) < MaxLockCalls
    /\ IF ~v_do_lock
       THEN /\ v_ctx' = Append(v_ctx, "dummy")
            /\ v_call' = LockCall("locking", timeout, "returned", None, <<>>)
            /\ v_log' = v_log
       ELSE IF v_old
       THEN /\ v_ctx' = v_ctx
            /\ v_call' = LockCall("locking", timeout, "raised", "NotImplementedError", <<>>)
            /\ v_log' = v_log
       ELSE /\ v_ctx' = Append(v_ctx, "lock_context")
            /\ v_call' = LockCall("locking", timeout, "returned", None, <<"instr.lock">>)
            /\ v_log' = Append(v_log, "instr.lock")
    /\ UNCHANGED <<v_do_lock, v_old, v_frames, v_pc>>

\* the with block of the innermost locking() ends
LeaveLocking ==
    /\ v_pc = "idle"
    /\ v_ctx # <<>>
    /\ v_ctx' = SubSeq(v_ctx, 1, Len(v_ctx) - 1)
    /\ IF v_ctx[Len(v_ctx)] = "lock_context"
       THEN /\ v_call' = LockCall("leave", NoneT, "returned", None, <<"instr.unlock">>)
            /\ v_log' = Append(v_log, "instr.unlock")
       ELSE /\ v_call' = LockCall("leave", NoneT, "returned", None, <<>>)
            /\ v_log' = v_log
    /\ UNCHANGED <<v_do_lock, v_old, v_frames, v_pc>>

InitLock ==
    /\ LockInit /\ TermIdle /\ LineIdle /\ TimeoutIdle /\ SerialIdle
    /\ OpsIdle /\ CoolIdle /\ ConnIdle /\ DetectIdle /\ FactoryIdle
    /\ ReadIdle /\ CtorIdle /\ WriteIdle /\ OwnIdle /\ SeqIdle /\ RetryIdle
    /\ ParamsIdle /\ WheelIdle

NextLock ==
    /\ \/ \E timeout \in TimeChoices \cup {NoneT} : Lock(timeout)
       \/ Unlock
       \/ Reenter
       \/ \E timeout \in TimeChoices \cup {NoneT} : EnterLocking(timeout)
       \/ LeaveLocking
    /\ UNCHANGED <<termVars, lineVars, timeoutVars, serialVars, opsVars,
                   coolVars, connVars, detectVars, factoryVars, readVars,
                   ctorVars, writeVars, ownVars, seqVars, retryVars,
                   paramVars, wheelVars>>

SpecLock == InitLock /\ [][NextLock]_vars

-----------------------------------------------------------------------------
(* SpecOwn: the cooldown tables as dict objects: which object the class    *)
(* and each instance name, and what cooldown reads from them               *)

\* object identities: the class's table, one per instance, one in the making
ObjIds == 0..(MaxInstances + 1)
Instances == 1..MaxInstances

\* the object _default_operation_cooldown names, and the reference of an
\* instance not constructed yet
ClassRef == 0
NoRef == MaxInstances + 2

\* the operation kinds and values used here
OwnKinds == {"default", "read"}

\* _default_operation_cooldown of the base class, and of a subclass that
\* gives a read cooldown and no default entry
ClassDefaults == {[k \in {"default"} |-> 0], [k \in {"read"} |-> 1]}

\* an identity no name refers to
Fresh(heap, refs) ==
    CHOOSE o \in ObjIds :
        /\ o # ClassRef
        /\ \A i \in Instances : refs[i] # o
        /\ \A p \in ObjIds :
              (p # ClassRef /\ \A i \in Instances : refs[i] # p) => o <= p

\* the heap once the objects no name refers to are gone
Collected(heap, refs) ==
    [o \in ObjIds |->
        IF o = ClassRef \/ \E i \in Instances : refs[i] = o
        THEN heap[o] ELSE <<>>]

\* instance i's attribute bound to a new dict holding `table`; the dict it
\* named before is collected when no other name refers to it, and the new
\* one is then known by the identity that came free
Rebound(heap, refs, i, table) ==
    LET o == Fresh(heap, refs)
        old == refs[i]
        kept == old = ClassRef \/ \E j \in Instances \ {i} : refs[j] = old
        at == IF kept THEN o ELSE old
        named == [refs EXCEPT ![i] = at]
    IN  [refs |-> named,
         heap |-> Collected([heap EXCEPT ![at] = table], named)]

\* an instance's table that is the class's own dict object
SharedDefault(heap, refs) == [ref |-> ClassRef, heap |-> heap]

\* dict(self._default_operation_cooldown): a new object with the same entries
CopyOfDefault(heap, refs) ==
    LET o == Fresh(heap, refs)
    IN  [ref |-> o, heap |-> [heap EXCEPT ![o] = heap[ClassRef]]]

\* cooldown that looks at the default entry first
cooldown_default_first(table, kind) ==
    LET c == IF "default" \in DOMAIN table THEN table["default"]
             ELSE IF kind \in DOMAIN table THEN table[kind]
             ELSE 0
    IN  [sleeps |-> c > 0, secs |-> c]

\* cooldown(kind): the value selected and whether time.sleep is called
cooldown(table, kind) ==
    LET c == IF kind \in DOMAIN table THEN table[kind]
             ELSE IF "default" \in DOMAIN table THEN table["default"]
             ELSE 0
    IN  [sleeps |-> c > 0, secs |-> c]

\* what the class and the instances see
Seen(heap, refs) ==
    [class |-> heap[ClassRef],
     inst |-> [i \in Instances |->
                  IF refs[i] = NoRef THEN <<>> ELSE heap[refs[i]]]]

\* keyword arguments: `all` or not, and at most one kind
OwnKwargs ==
    UNION {[D -> CoolValues] :
              D \in {E \in SUBSET (OwnKinds \cup {"all"}) :
                        \E k \in OwnKinds : E \subseteq {k, "all"}}}

\* a call as recorded: for cooldown the kind and the sleep
OwnCall(op, inst, kind, slept) ==
    [op |-> op, inst |-> inst, kind |-> kind, slept |-> slept]

NoSleep == [sleeps |-> FALSE, secs |-> 0]

\* the class is defined; no instance exists yet
OwnInit ==
    /\ \E d \in ClassDefaults :
          h_heap = [o \in ObjIds |-> IF o = ClassRef THEN d ELSE <<>>]
    /\ h_refs = [i \in Instances |-> NoRef]
    /\ h_call = OwnCall("none", 0, None, NoSleep)

\* IDeviceCommBackend.__init__ for instance i
Construct(i) ==
    /\ h_refs[i] = NoRef
    /\ LET new == CopyOfDefault(h_heap, h_refs)
       IN  /\ h_heap' = new.heap
           /\ h_refs' = [h_refs EXCEPT ![i] = new.ref]
    /\ h_call' = OwnCall("init", i, None, NoSleep)

\* setup_cooldown(**kwargs) on instance i: with `all` the attribute is bound
\* to a new dict; the dict it names is then updated in place
InstanceSetupCooldown(i, kwargs) ==
    /\ h_refs[i] # NoRef
    /\ IF "all" \in DOMAIN kwargs
       THEN LET made == Rebound(h_heap, h_refs, i,
                                [k \in {"default"} |-> kwargs["all"]])
                o == made.refs[i]
            IN  /\ h_refs' = made.refs
                /\ h_heap' = [made.heap EXCEPT
                       ![o] = Updated(made.heap[o], Without(kwargs, "all"))]
       ELSE /\ h_refs' = h_refs
            /\ h_heap' = [h_heap EXCEPT ![h_refs[i]] = Updated(h_heap[h_refs[i]], kwargs)]
    /\ h_call' = OwnCall("setup_cooldown", i, None, NoSleep)

\* cooldown(kind) on instance i
Cooldown(i, kind) ==
    /\ h_refs[i] # NoRef
    /\ h_call' = OwnCall("cooldown", i, kind,
                         cooldown(h_heap[h_refs[i]], kind))
    /\ UNCHANGED <<h_heap, h_refs>>

InitOwn ==
    /\ OwnInit /\ TermIdle /\ LineIdle /\ TimeoutIdle /\ SerialIdle
    /\ OpsIdle /\ CoolIdle /\ ConnIdle /\ DetectIdle /\ FactoryIdle
    /\ ReadIdle /\ CtorIdle /\ WriteIdle /\ LockIdle /\ SeqIdle /\ RetryIdle
    /\ ParamsIdle /\ WheelIdle

NextOwn ==
    /\ \/ \E i \in Instances : Construct(i)
       \/ \E i \in Instances : \E kwargs \in OwnKwargs :
              InstanceSetupCooldown(i, kwargs)
       \/ \E i \in Instances : \E kind \in {"read", "open"} :
              Cooldown(i, kind)
    /\ UNCHANGED <<termVars, lineVars, timeoutVars, serialVars, opsVars,
                   coolVars, connVars, detectVars, factoryVars, readVars,
                   ctorVars, writeVars, lockVars, seqVars, retryVars,
                   paramVars, wheelVars>>

SpecOwn == InitOwn /\ [][NextOwn]_vars

-----------------------------------------------------------------------------
(* SpecSeq: readline called again and again on one transport *)

SeqBackends == {"serial", "ft232", "pyusb"}

\* the terminator lists with at least one terminator
SeqTermLists == ReadTermLists \ {<<>>}

\* bytes pending on the transport: line bodies and terminator bytes
SeqBytes == {"a", "r", "n"}

\* how a readline call ends: returned or raised, the value returned and
\* the bytes it left on the transport
SeqOutcome(status, res, rest) == [status |-> status, res |-> res, rest |-> rest]

\* readline of the serial, ft232 and pyusb backends, with the bytes it leaves
\* on the transport; a call that would go round for ever on an exhausted
\* transport is cut off as "waits"
RECURSIVE readline(_, _, _, _, _, _)
readline(backend, terms, stream, remove_term, skip_empty, error_on_timeout) ==
    LET r == ReadUntilTerm(backend, terms, stream, error_on_timeout)
        result == IF remove_term /\ terms # <<>>
                  THEN remove_longest_term(r.res, terms)
                  ELSE r.res
    IN  IF r.raised THEN SeqOutcome("raised", <<>>, r.rest)
        ELSE IF ~(skip_empty /\ remove_term /\ result = <<>>)
        THEN SeqOutcome("returned", result, r.rest)
        ELSE IF r.res = <<>> THEN SeqOutcome("waits", <<>>, r.rest)
        ELSE readline(backend, terms, r.rest, remove_term, skip_empty,
                      error_on_timeout)

\* a backend with at least one terminator and some bytes pending
SeqInit ==
    /\ q_backend \in SeqBackends
    /\ q_term_read \in SeqTermLists
    /\ q_pending \in SeqsOf(SeqBytes, 0, MaxPending)
    /\ q_stream = q_pending
    /\ q_results = <<>>
    /\ q_call = [op |-> "none", plain |-> TRUE]

\* readline(remove_term, skip_empty, error_on_timeout) is called and ends
SeqReadline(remove_term, skip_empty, error_on_timeout) ==
    /\ Len(q_results) < MaxReadlines
    /\ IF q_call.op = "none" THEN TRUE ELSE q_call.status = "returned"
    /\ LET r == readline(q_backend, q_term_read, q_stream, remove_term,
                         skip_empty, error_on_timeout)
       IN  /\ q_stream' = r.rest
           /\ q_results' = IF r.status = "returned"
                           THEN Append(q_results, r.res) ELSE q_results
           /\ q_call' = [op |-> "readline", remove_term |-> remove_term,
                         skip_empty |-> skip_empty,
                         error_on_timeout |-> error_on_timeout,
                         plain |-> q_call.plain /\ ~remove_term /\ ~skip_empty,
                         before |-> q_stream, status |-> r.status]
    /\ UNCHANGED <<q_backend, q_term_read, q_pending>>

InitSeq ==
    /\ SeqInit /\ TermIdle /\ LineIdle /\ TimeoutIdle /\ SerialIdle
    /\ OpsIdle /\ CoolIdle /\ ConnIdle /\ DetectIdle /\ FactoryIdle
    /\ ReadIdle /\ CtorIdle /\ WriteIdle /\ LockIdle /\ OwnIdle /\ RetryIdle
    /\ ParamsIdle /\ WheelIdle

NextSeq ==
    /\ \E remove_term, skip_empty, error_on_timeout \in BOOLEAN :
          SeqReadline(remove_term, skip_empty, error_on_timeout)
    /\ UNCHANGED <<termVars, lineVars, timeoutVars, serialVars, opsVars,
                   coolVars, connVars, detectVars, factoryVars, readVars,
                   ctorVars, writeVars, lockVars, ownVars, retryVars,
                   paramVars, wheelVars>>

SpecSeq == InitSeq /\ [][NextSeq]_vars

-----------------------------------------------------------------------------
(* SpecRetry: the serial backend opening its port, at construction, in     *)
(* open() and on entry of a single_op scope, on a port that refuses some   *)
(* attempts before it opens                                                *)

\* how an open ended: whether the port is open and the instr.open calls made
Opening(ok, attempts) == [ok |-> ok, attempts |-> attempts]

\* general.retry_wait(func, try_times, delay): func is called until it
\* succeeds; the error of the try_times-th failed call is raised
RECURSIVE RetryWaitLoop(_, _, _)
RetryWaitLoop(failures, try_times, t) ==
    IF failures = 0 THEN Opening(TRUE, t + 1)
    ELSE IF t + 1 >= try_times THEN Opening(FALSE, t + 1)
    ELSE RetryWaitLoop(failures - 1, try_times, t + 1)

RetryWait(failures, try_times) == RetryWaitLoop(failures, try_times, 0)

\* instr.open() called once
OpenOnce(failures, try_times) == Opening(failures = 0, 1)

\* _do_open
do_open(failures, try_times) == RetryWait(failures, try_times)

\* the open in __init__ (connect_on_operation False): self.instr.open()
init_open(failures, try_times) == OpenOnce(failures, try_times)

OpenSites == {"init", "open", "scope"}

RetryInit ==
    /\ a_site \in OpenSites
    /\ a_retry \in 1..MaxRetry
    /\ a_failures \in 0..MaxFailures
    /\ a_attempts = 0
    /\ a_pc = "call"

\* what the step records
Opened(r) ==
    /\ a_attempts' = r.attempts
    /\ a_pc' = IF r.ok THEN "opened" ELSE "failed"
    /\ UNCHANGED <<a_site, a_retry, a_failures>>

\* SerialDeviceBackend(conn, open_retry_times=a_retry)
RetryConstruct ==
    /\ a_pc = "call" /\ a_site = "init"
    /\ Opened(init_open(a_failures, a_retry))

\* open() on a closed backend without connect_on_operation
RetryOpen ==
    /\ a_pc = "call" /\ a_site = "open"
    /\ Opened(do_open(a_failures, a_retry))

\* entry of the outermost single_op scope with connect_on_operation
RetryOpOpen ==
    /\ a_pc = "call" /\ a_site = "scope"
    /\ Opened(do_open(a_failures, a_retry))

InitRetry ==
    /\ RetryInit /\ TermIdle /\ LineIdle /\ TimeoutIdle /\ SerialIdle
    /\ OpsIdle /\ CoolIdle /\ ConnIdle /\ DetectIdle /\ FactoryIdle
    /\ ReadIdle /\ CtorIdle /\ WriteIdle /\ LockIdle /\ OwnIdle /\ SeqIdle
    /\ ParamsIdle /\ WheelIdle

NextRetry ==
    /\ \/ RetryConstruct
       \/ RetryOpen
       \/ RetryOpOpen
    /\ UNCHANGED <<termVars, lineVars, timeoutVars, serialVars, opsVars,
                   coolVars, connVars, detectVars, factoryVars, readVars,
                   ctorVars, writeVars, lockVars, ownVars, seqVars, paramVars,
                   wheelVars>>

SpecRetry == InitRetry /\ [][NextRetry]_vars

-----------------------------------------------------------------------------
(* SpecParams: what each constructor makes of the conn argument: the dict  *)
(* it stores as self.conn and what becomes of the caller's object.         *)
(* Parameter values are opaque strings, except the network address (a      *)
(* character sequence) and port (a number)                                 *)

ParamClasses == {"serial", "ft232", "network", "pyusb"}

\* the address 127.0.0.1
Localhost == <<"1", "2", "7">>

\* cls._default_conn
DefaultConn(cls) ==
    CASE cls = "serial" ->
            SeqConn(<<"COM1", "19200", "8", "N", "1", "0", "0", "0">>)
      [] cls = "ft232" ->
            SeqConn(<<None, "9600", "8", "N", "1", "0", "0">>)
      [] cls = "network" -> SeqConn(<<Localhost, 80>>)
      [] cls = "pyusb" ->
            SeqConn(<<"0x0000", "0x0000", "0", "0x00", "0x01", "libusb1">>)

\* str(v) for a parameter value: a string is itself, None becomes the text
\* None
StrOfNone == "str(None)"
Str(v) == IF v = None THEN StrOfNone ELSE v

\* self.conn after SerialDeviceBackend.__init__ and
\* PyUSBDeviceBackend.__init__: a copy of the combined dict
CombinedConn(cls, conn) == combine_conn(cls, conn, DefaultConn(cls))

\* self.conn after FT232DeviceBackend.__init__: the port goes through str
FT232Conn(conn) ==
    LET conn_dict == combine_conn("ft232", conn, DefaultConn("ft232"))
    IN  Updated(conn_dict, [k \in {"port"} |-> Str(conn_dict["port"])])

\* the caller's object once the network constructor has run: a dict is
\* handed to _split_addr as it is, which assigns addr and port in it
NetworkArgAfter(conn) ==
    IF conn.form = "dict" /\ "addr" \in DOMAIN conn.d
    THEN LET split == split_addr(conn.d)
         IN  IF split.raised THEN conn ELSE DictConn(split.conn)
    ELSE conn

\* how a constructor ends: self.conn, and the error when it raises
Built(cls, conn, fails) ==
    CASE cls = "network" -> NetworkCtor(conn, fails)
      [] cls = "ft232" ->
            IF fails
            THEN CtorRaised("BackendOpenError", "open", FT232Conn(conn), <<>>)
            ELSE CtorReturned(FT232Conn(conn), <<>>)
      [] OTHER ->
            IF fails
            THEN CtorRaised("BackendOpenError", "open",
                            CombinedConn(cls, conn), <<>>)
            ELSE CtorReturned(CombinedConn(cls, conn), <<>>)

\* the caller's object after the call
ArgAfter(cls, conn) == IF cls = "network" THEN NetworkArgAfter(conn) ELSE conn

\* the conn arguments a caller gives: a bare first parameter, a sequence of
\* the first two, dicts with one parameter or none
ParamConns(cls) ==
    IF cls = "network" THEN NetworkConns
    ELSE LET first == ConnParams(cls)[1]
             second == ConnParams(cls)[2]
         IN  {ScalarConn("p1"), SeqConn(<<>>), SeqConn(<<"p1">>),
              SeqConn(<<"p1", "p2">>), DictConn(<<>>),
              DictConn([k \in {first} |-> "p1"]),
              DictConn([k \in {second} |-> "p2"]),
              DictConn([k \in {first, second} |->
                           IF k = first THEN "p1" ELSE "p2"])}

ParamsInit ==
    /\ p_cls \in ParamClasses
    /\ p_fails \in BOOLEAN
    /\ p_arg \in ParamConns(p_cls)
    /\ p_obj = p_arg
    /\ p_res = CtorRaised(None, "args", <<>>, <<>>)
    /\ p_pc = "init"

\* cls(conn)
ConstructWith ==
    /\ p_pc = "init"
    /\ p_res' = Built(p_cls, p_arg, p_fails)
    /\ p_obj' = ArgAfter(p_cls, p_obj)
    /\ p_pc' = "done"
    /\ UNCHANGED <<p_cls, p_fails, p_arg>>

InitParams ==
    /\ ParamsInit /\ TermIdle /\ LineIdle /\ TimeoutIdle /\ SerialIdle
    /\ OpsIdle /\ CoolIdle /\ ConnIdle /\ DetectIdle /\ FactoryIdle
    /\ ReadIdle /\ CtorIdle /\ WriteIdle /\ LockIdle /\ OwnIdle /\ SeqIdle
    /\ RetryIdle /\ WheelIdle

NextParams ==
    /\ ConstructWith
    /\ UNCHANGED <<termVars, lineVars, timeoutVars, serialVars, opsVars,
                   coolVars, connVars, detectVars, factoryVars, readVars,
                   ctorVars, writeVars, lockVars, ownVars, seqVars, retryVars,
                   wheelVars>>

SpecParams == InitParams /\ [][NextParams]_vars

-----------------------------------------------------------------------------
(* SpecWheel: FW.set_position (pylablib/devices/Thorlabs/serial.py) as the *)
(* positions it writes to the wheel                                        *)

\* the number of wheel positions (6 or 12)
PCounts == {6, 12}

Abs(n) == IF n < 0 THEN -n ELSE n

\* set_position that writes the target at once
set_position_direct(cur_pos, pos, pcount, respect_bound) == <<pos>>

\* FW.set_position(pos): the positions written, cur_pos being what
\* get_position returns
set_position(cur_pos, pos, pcount, respect_bound) ==
    IF respect_bound
    THEN IF Abs(pos - cur_pos) >= pcount \div 2
         THEN LET medp1 == (2 * cur_pos + pos) \div 3
                  medp2 == (cur_pos + 2 * pos) \div 3
              IN  <<medp1, medp2, pos>>
         ELSE <<pos>>
    ELSE <<pos>>

\* FW.__init__
WheelInit ==
    /\ fw_pcount \in PCounts
    /\ fw_respect_bound \in BOOLEAN
    /\ fw_call = [op |-> "none", cur |-> 0, pos |-> 0]
    /\ fw_written = <<>>

\* one set_position call on a wheel standing at cur
SetPosition ==
    \E cur \in 1..fw_pcount, pos \in 1..fw_pcount :
        /\ fw_call' = [op |-> "set_position", cur |-> cur, pos |-> pos]
        /\ fw_written' = set_position(cur, pos, fw_pcount, fw_respect_bound)
        /\ UNCHANGED <<fw_pcount, fw_respect_bound>>

InitWheel ==
    /\ WheelInit /\ TermIdle /\ LineIdle /\ TimeoutIdle /\ SerialIdle
    /\ OpsIdle /\ CoolIdle /\ ConnIdle /\ DetectIdle /\ FactoryIdle
    /\ ReadIdle /\ CtorIdle /\ WriteIdle /\ LockIdle /\ OwnIdle /\ SeqIdle
    /\ RetryIdle /\ ParamsIdle

NextWheel ==
    /\ SetPosition
    /\ UNCHANGED <<termVars, lineVars, timeoutVars, serialVars, opsVars,
                   coolVars, connVars, detectVars, factoryVars, readVars,
                   ctorVars, writeVars, lockVars, ownVars, seqVars,
                   retryVars, paramVars>>

SpecWheel == InitWheel /\ [][NextWheel]_vars

-----------------------------------------------------------------------------
(* SpecTerm: remove_longest_term applied to every small message and list *)

TermInit ==
    /\ t_pc = "input"
    /\ t_msg \in SeqsOf(Bytes, 0, MaxMsgLen)
    /\ t_terms \in SeqsOf(TermChoices, 0, MaxTerms)
    /\ t_res = <<>>

StripTerm ==
    /\ t_pc = "input"
    /\ t_res' = remove_longest_term(t_msg, t_terms)
    /\ t_pc' = "done"
    /\ UNCHANGED <<t_msg, t_terms>>

InitTerm ==
    TermInit /\ LineIdle /\ TimeoutIdle /\ SerialIdle /\ OpsIdle /\ CoolIdle
    /\ ConnIdle /\ DetectIdle /\ FactoryIdle /\ ReadIdle /\ CtorIdle
    /\ WriteIdle /\ LockIdle /\ OwnIdle /\ SeqIdle /\ RetryIdle /\ ParamsIdle
    /\ WheelIdle

NextTerm ==
    /\ StripTerm
    /\ UNCHANGED <<lineVars, timeoutVars, serialVars, opsVars, coolVars,
                   connVars, detectVars, factoryVars, readVars, ctorVars,
                   writeVars, lockVars, ownVars, seqVars, retryVars,
                   paramVars, wheelVars>>

SpecTerm == InitTerm /\ [][NextTerm]_vars

-----------------------------------------------------------------------------
(* Claims *)

\* the non-empty configured terminators that end msg
EndingTerms(msg, terms) ==
    {i \in 1..Len(terms) : Len(terms[i]) > 0 /\ EndsWith(msg, terms[i])}

\* C1: when the message ends with at least one non-empty configured
\* terminator, remove_longest_term returns the message without its last k
\* bytes, k being the length of the longest configured terminator that is a
\* suffix of the message, whatever the order of the list.
C1_LongestRemoved ==
    (t_pc = "done" /\ EndingTerms(t_msg, t_terms) # {}) =>
        \E i \in EndingTerms(t_msg, t_terms) :
            /\ \A j \in EndingTerms(t_msg, t_terms) :
                   Len(t_terms[j]) <= Len(t_terms[i])
            /\ t_res \o t_terms[i] = t_msg

\* C1 witness: the spec's example, T = ["\n", "\r\n"], B = "a\r\n" gives "a"
C1_Witness ==
    /\ t_pc = "done"
    /\ t_terms = <<<<"n">>, <<"r", "n">>>>
    /\ t_msg = <<"a", "r", "n">>
    /\ t_res = <<"a">>

\* the list-shaped terminator lists in which a reader that stops at the first
\* match still sees every terminator whole: no terminator is empty and none
\* has a proper prefix that ends with a configured terminator
PrefixFreeTerms(terms) ==
    /\ \A t \in Elems(terms) : t # <<>>
    /\ \A t \in Elems(terms) : \A k \in 1..(Len(t) - 1) :
           \A u \in Elems(terms) : ~EndsWith(SubSeq(t, 1, k), u)

\* `line` followed by `lt` is one non-empty line ended by the configured
\* terminator lt: no terminator ends earlier in it, and lt is the longest
\* configured terminator it ends with
TerminatedLine(line, lt, terms) ==
    /\ line # <<>>
    /\ lt \in Elems(terms)
    /\ \A k \in 1..(Len(line \o lt) - 1) :
           \A u \in Elems(terms) : ~EndsWith(SubSeq(line \o lt, 1, k), u)
    /\ \A u \in Elems(terms) : EndsWith(line \o lt, u) => Len(u) <= Len(lt)

\* a readline(remove_term=True, skip_empty=True) call over bare terminators
\* followed by a non-empty terminated line
C2_Case ==
    /\ l_pc \in {"loop", "returned", "raised"}
    /\ l_call.op = "readline"
    /\ l_call.remove_term /\ l_call.skip_empty
    /\ l_term_read # <<>>
    /\ TerminatedLine(l_line, l_lineterm, l_term_read)

\* C2 as stated: for every non-empty list of (non-empty) terminators,
\* readline with remove_term and skip_empty over any number of bare
\* terminators followed by a non-empty terminated line returns that line
\* without its terminator, and never an empty result.
C2_AnyTermList ==
    (C2_Case /\ \A t \in Elems(l_term_read) : t # <<>>) =>
        /\ l_pc # "raised"
        /\ l_pc = "returned" => l_result = l_line

\* C2 amended: the same, for terminator lists whose terminators are non-empty
\* and of which none has a proper prefix ending with a configured terminator
\* (every list of single-byte terminators is such a list); while the call is
\* still looping, data is still pending.
C2_SkipsEmptyLines ==
    (C2_Case /\ PrefixFreeTerms(l_term_read)) =>
        /\ l_pc # "raised"
        /\ l_pc = "returned" => (l_result = l_line /\ l_result # <<>>)
        /\ l_pc = "loop" => l_stream # <<>>

\* C2 witness: two empty lines were skipped and the line came back stripped,
\* with LF and CR LF both configured
C2_Witness ==
    /\ C2_Case
    /\ l_pc = "returned"
    /\ l_term_read = <<LF, CRLF>>
    /\ l_empties = <<CRLF, LF>>
    /\ l_lineterm = CRLF
    /\ l_result = l_line

\* a terminator-bounded read that found the transport exhausted before any
\* configured terminator: the stream held an unterminated piece of a line
C3_Case ==
    /\ l_pc \in {"returned", "raised"}
    /\ l_backend \in {"serial", "ft232", "pyusb"}
    /\ l_call.terms # <<>>
    /\ \A t \in Elems(l_call.terms) : t # <<>>
    /\ l_empties = <<>> /\ l_lineterm = <<>>
    /\ \A k \in 1..Len(l_line) :
           \A u \in Elems(l_call.terms) : ~EndsWith(SubSeq(l_line, 1, k), u)

\* C3 as stated: on serial, ft232 and pyusb, readline and
\* read_multichar_term that time out before any terminator return the bytes
\* accumulated so far when error_on_timeout is false, and raise when it is
\* true and terminators are configured.
C3_PartialOnTimeout ==
    C3_Case =>
        IF l_call.error_on_timeout
        THEN l_pc = "raised"
        ELSE l_pc = "returned" /\ l_result = l_line

\* C4 as stated: once a using_timeout block has been left, by return or by
\* an exception, get_timeout() is the value it was when the block was
\* entered, for every such value including None.
C4_TimeoutRestored ==
    to_last.op = "exit" => GetTimeout(to_backend, to_stored) = to_last.before

\* C5 as stated: set_timeout(None) leaves get_timeout() as it was and
\* invokes no transport timeout setter, on every backend.
C5_NoneLeavesTimeout ==
    (to_last.op = "set_timeout" /\ to_last.timeout = NoneT) =>
        /\ GetTimeout(to_backend, to_stored) = to_last.before
        /\ ~to_last.setter

\* the kind of the outermost call in progress, "none" outside every call
OutermostKind == IF s_frames = <<>> THEN "none" ELSE s_frames[1].kind

\* C6: on a serial backend with connect_on_operation=True the port is opened
\* exactly by the steps that take the scope counter from 0 to 1 and closed
\* exactly by the steps that take it from 1 to 0, the counter is never
\* negative, the port is open iff the counter is above 0, and a read, a write
\* (with its echo lines) or a single_op block of the caller opens the port
\* once while it runs and has closed it once when it has ended
C6_ScopeCounter ==
    s_ev # "off" /\ s_coo =>
        /\ s_stack >= 0
        /\ s_port <=> s_stack > 0
        /\ s_ev = "open" <=> (s_prev = 0 /\ s_stack = 1)
        /\ s_ev = "close" <=> (s_prev = 1 /\ s_stack = 0)
        /\ OutermostKind \in ScopeKinds => s_opens = 1 /\ s_closes = 0
        /\ s_frames = <<>> /\ s_ev = "close" /\ s_ret.kind \in ScopeKinds
               => s_opens = 1 /\ s_closes = 1

\* a write with read_echo is inside the _read_terms of an echo line: three
\* scopes deep, the port opened once
C6_Witness ==
    /\ s_ev # "off" /\ s_coo
    /\ Len(s_frames) = 3
    /\ s_frames[1].kind = "write" /\ s_frames[2].kind = "readline"
    /\ s_frames[3].kind = "rt"
    /\ s_stack = 2 /\ s_port /\ s_opens = 1 /\ s_closes = 0

\* C7: on a serial backend with connect_on_operation=True a read, readline
\* or write that ended by raising left the scope counter at the value it had
\* when the call began, with the port closed if that value is 0, and a
\* failed open on scope entry leaves the counter unchanged
C7_UnwoundOnError ==
    s_ev # "off" /\ s_coo =>
        /\ s_ret.kind \in {"read", "readline", "write"} =>
               (s_ret.raised =>
                    /\ s_ret.after = s_ret.base
                    /\ s_ret.base = 0 => ~s_ret.port)
        /\ s_ev = "open_failed" => s_stack = s_prev /\ ~s_port

\* a write whose port was opened for it has just ended by raising
C7_Witness ==
    /\ s_ev = "close" /\ s_coo
    /\ s_ret.kind = "write" /\ s_ret.raised /\ s_ret.base = 0
    /\ s_frames = <<>> /\ s_exc

\* the log holds a cooldown `cd` with no transport operation `t` after it
CooledDown(log, t, cd) ==
    \E i \in 1..Len(log) :
        log[i] = cd /\ \A j \in (i + 1)..Len(log) : log[j] # t

\* every transport operation `t` in the log is directly followed by `cd`
EachFollowed(log, t, cd) ==
    \A i \in 1..Len(log) : log[i] = t => i < Len(log) /\ log[i + 1] = cd

\* C8: every read() and readline() that returns, on every backend and for
\* every argument combination, has called cooldown("read") after its last
\* transport read
C8_ReadCooldown ==
    o_call.status = "returned" /\ o_call.op \in {"read", "readline"} =>
        CooledDown(o_log, "t:read", "cd:read")

\* C9: on every backend each open(), close() and set_timeout(t), t not None,
\* that returns has called the cooldown of its kind after its last transport
\* operation, and each transport write and flush of a write() is directly
\* followed by the cooldown of its kind
C9_OperationCooldowns ==
    o_call.status = "returned" =>
        /\ o_call.op = "open" => CooledDown(o_log, "t:open", "cd:open")
        /\ o_call.op = "close" => CooledDown(o_log, "t:close", "cd:close")
        /\ o_call.op = "set_timeout" /\ o_call.timeout # NoneT =>
               CooledDown(o_log, "t:timeout", "cd:timeout")
        /\ o_call.op = "write" =>
               /\ EachFollowed(o_log, "t:write", "cd:write")
               /\ EachFollowed(o_log, "t:flush", "cd:flush")

\* C10: after setup_cooldown with all=v the table holds default (v, or the
\* default given in the same call) and the other kinds of the call and
\* nothing else; after a call without `all` the table holds the call's kinds
\* with the call's values and every other entry as it was
C10_SetupCooldown ==
    c_pc = "called" =>
        LET named == DOMAIN c_kwargs \ {"all"}
        IN  /\ \A k \in named : c_table[k] = c_kwargs[k]
            /\ IF "all" \in DOMAIN c_kwargs
               THEN /\ DOMAIN c_table = {"default"} \cup named
                    /\ "default" \notin named =>
                           c_table["default"] = c_kwargs["all"]
               ELSE /\ DOMAIN c_table = DOMAIN c_prev \cup named
                    /\ \A k \in DOMAIN c_prev \ named : c_table[k] = c_prev[k]

\* a call with all and read on a table that held a write entry: the write
\* entry is gone, read differs from default
C10_Witness ==
    /\ c_pc = "called"
    /\ {"all", "read"} \subseteq DOMAIN c_kwargs
    /\ "write" \in DOMAIN c_prev
    /\ "write" \notin DOMAIN c_table
    /\ c_table["read"] # c_table["default"]

\* d is conn normalized for cls: a dict as it is, a tuple or list paired in
\* order with the class's field names, a bare value under the first name
IsNormalOf(d, cls, conn) ==
    LET names == ConnParams(cls)
    IN  CASE conn.form = "dict" -> d = conn.d
          [] conn.form = "seq" ->
                LET n == IF Len(conn.items) < Len(names)
                         THEN Len(conn.items) ELSE Len(names)
                IN  /\ DOMAIN d = {names[i] : i \in 1..n}
                    /\ \A i \in 1..n : d[names[i]] = conn.items[i]
          [] conn.form = "scalar" ->
                DOMAIN d = {names[1]} /\ d[names[1]] = conn.v

\* C11: combine_conn(conn1, conn2) returns a dictionary that holds every
\* field of either normalized argument, with conn1's value where conn1 has
\* the field and conn2's value otherwise, and leaves both arguments as they
\* were passed
C11_CombineConn ==
    k_pc = "done" =>
        \E d1 \in {ConnToDict(k_cls, k_arg1)} :
        \E d2 \in {ConnToDict(k_cls, k_arg2)} :
            /\ IsNormalOf(d1, k_cls, k_arg1)
            /\ IsNormalOf(d2, k_cls, k_arg2)
            /\ DOMAIN k_res = DOMAIN d1 \cup DOMAIN d2
            /\ \A f \in DOMAIN d1 : k_res[f] = d1[f]
            /\ \A f \in DOMAIN d2 \ DOMAIN d1 : k_res[f] = d2[f]
            /\ k_conn1 = k_arg1
            /\ k_conn2 = k_arg2

\* a tuple combined with a dict that has the tuple's first field with another
\* value and a field the tuple lacks
C11_Witness ==
    /\ k_pc = "done"
    /\ k_cls = "network"
    /\ k_arg1.form = "seq" /\ Len(k_arg1.items) = 1
    /\ k_arg2.form = "dict" /\ DOMAIN k_arg2.d = {"addr", "port"}
    /\ k_arg2.d["addr"] # k_arg1.items[1]
    /\ k_res["addr"] = k_arg1.items[1]
    /\ k_res["port"] = k_arg2.d["port"]

\* the string starts with a dotted quad: four runs of digits with dots
\* between them
StartsWithQuad(s) ==
    \E p1, p2, p3, e \in 1..Len(s) :
        /\ 1 < p1 /\ p1 + 1 < p2 /\ p2 + 1 < p3 /\ p3 < e
        /\ s[p1] = "." /\ s[p2] = "." /\ s[p3] = "."
        /\ \A i \in 1..e : i \notin {p1, p2, p3} => s[i] = "1"

\* the string starts with COM and a digit, in either case
StartsWithCom(s) ==
    /\ Len(s) >= 4
    /\ s[1] \in {"c", "C"} /\ s[2] \in {"o", "O"} /\ s[3] \in {"m", "M"}
    /\ s[4] = "1"

\* what the string rules give for one value
ByStringRules(v, default) ==
    IF v.type = "str" /\ StartsWithQuad(v.chars) THEN "network"
    ELSE IF v.type = "str" /\ StartsWithCom(v.chars) THEN "serial"
    ELSE default

\* C12: autodetect_backend gives "pyusb" for a sequence whose first two
\* elements are integers in 0..65535, classifies any other non-empty
\* sequence by its first element, gives "network" for a string that starts
\* with a dotted quad, otherwise "serial" for one that starts with COM and
\* digits in either case, and the default for everything else
C12_DetectStringsAndSequences ==
    d_pc = "done" /\ d_conn.type # "dict" /\ d_conn # SeqV(<<>>) =>
        d_res =
            IF d_conn.type = "seq"
            THEN IF /\ Len(d_conn.items) >= 2
                    /\ \A i \in 1..2 :
                           /\ d_conn.items[i].type = "int"
                           /\ d_conn.items[i].int \in 0..65535
                 THEN "pyusb"
                 ELSE ByStringRules(d_conn.items[1], d_default)
            ELSE ByStringRules(d_conn, d_default)

\* a string with a dotted quad after a leading character gets the default,
\* and so does a one-element sequence holding such a string
C12_Witness ==
    /\ d_pc = "done"
    /\ d_conn.type = "seq" /\ Len(d_conn.items) = 1
    /\ d_conn.items[1] = StrV(<<"x", "1", ".", "1", ".", "1", ".", "1">>)
    /\ d_default = "serial"
    /\ d_res = "serial"

\* C13: on a dict autodetect_backend gives "network" for a network-shaped
\* addr, otherwise "serial" for a COM<digits> port, otherwise "pyusb" when
\* both vendorID and productID are present, otherwise the default
C13_DetectDict ==
    d_pc = "done" /\ d_conn.type = "dict" =>
        LET has(k) == k \in DOMAIN d_conn.d
        IN  d_res =
              IF has("addr") /\ d_conn.d["addr"].type = "str"
                 /\ StartsWithQuad(d_conn.d["addr"].chars)
              THEN "network"
              ELSE IF has("port") /\ d_conn.d["port"].type = "str"
                      /\ StartsWithCom(d_conn.d["port"].chars)
              THEN "serial"
              ELSE IF has("vendorID") /\ has("productID") THEN "pyusb"
              ELSE d_default

\* a dict that passes all three tests is "network"
C13_Witness ==
    /\ d_pc = "done" /\ d_conn.type = "dict"
    /\ DOMAIN d_conn.d = DetectKeys
    /\ IsNetworkAddr(d_conn.d["addr"])
    /\ IsSerialAddr(d_conn.d["port"])
    /\ d_res = "network"

\* conn is a pair (kind, params): a non-empty tuple whose first element is a
\* registered name or a backend class
IsPair(conn) ==
    /\ conn.type = "seq" /\ conn.items # <<>>
    /\ \/ conn.items[1].type = "class"
       \/ /\ conn.items[1].type = "str"
          /\ \E k \in f_registry : conn.items[1].chars = KindChars(k)

\* C14: new_backend given a backend instance as conn returns that instance,
\* whatever backend and defaults are, runs no constructor, and leaves the
\* instance opened or closed as it was
C14_InstancePassThrough ==
    [][ f_call'.fn = "new_backend" /\ f_call'.conn.type = "inst" =>
            /\ f_res'.status = "returned" /\ f_res'.what = "same"
            /\ f_res'.conn = f_call'.conn
            /\ f_res'.log = <<>>
            /\ f_opened' = f_opened ]_vars

\* an open instance of a class outside the registry, passed with an
\* unregistered backend name and with defaults
C14_Witness ==
    /\ f_pc = "done" /\ f_call.fn = "new_backend"
    /\ f_call.conn = InstV("custom")
    /\ f_call.backend = StrV(KindChars("bogus"))
    /\ f_call.defaults.given
    /\ f_opened
    /\ f_res.what = "same"

\* C15: whenever new_backend builds a backend and defaults has an entry for
\* its kind, the constructor gets combine_conn(supplied parameters,
\* defaults[kind]), for bare parameters and for the params of a
\* (kind, params) pair alike
C15_DefaultsMerged ==
    f_pc = "done" /\ f_call.fn = "new_backend" /\ f_res.status = "returned" =>
        (f_res.what = "new" /\ f_call.defaults.given
         /\ f_res.kind \in DOMAIN f_call.defaults.d =>
            LET supplied == IF IsPair(f_call.conn) THEN f_call.conn.items[2]
                            ELSE f_call.conn
            IN  f_res.conn =
                    DictV(combine_conn(f_res.kind, AsConn(supplied),
                                       AsConn(f_call.defaults.d[f_res.kind]))))

\* C16: new_backend given a pair (kind, params) with kind a registered name
\* or a backend class builds a backend of that kind from params (as they are
\* or merged with defaults), whatever the backend argument
C16_PairOverridesBackend ==
    f_pc = "done" /\ f_call.fn = "new_backend" =>
        (IsPair(f_call.conn) /\ Len(f_call.conn.items) = 2
         /\ f_call.conn.items[2].type # "inst" =>
            /\ f_res.status = "returned" /\ f_res.what = "new"
            /\ f_res.kind = KindOf(f_call.conn.items[1].chars)
            /\ f_res.log = <<f_res.kind>>
            /\ \/ f_res.conn = f_call.conn.items[2]
               \/ /\ f_call.defaults.given
                  /\ f_res.kind \in DOMAIN f_call.defaults.d
                  /\ f_res.conn =
                       DictV(combine_conn(f_res.kind, AsConn(f_call.conn.items[2]),
                                          AsConn(f_call.defaults.d[f_res.kind]))))

\* a pair naming serial, passed with backend "network": a serial backend is
\* built from the pair's params
C16_Witness ==
    /\ f_pc = "done" /\ f_call.fn = "new_backend"
    /\ f_call.conn = SeqV(<<StrV(KindChars("serial")), IpString>>)
    /\ f_call.backend = StrV(KindChars("network"))
    /\ f_res.status = "returned" /\ f_res.kind = "serial"
    /\ f_res.conn = IpString

\* the call names a backend kind (its backend argument, resolved by
\* autodetection when "auto") that is no backend class and not registered
NamesUnregistered ==
    /\ \/ f_call.fn = "list_backend_resources" /\ f_call.backend # NoneV
       \/ /\ f_call.fn = "new_backend"
          /\ f_call.conn.type # "inst" /\ ~IsPair(f_call.conn)
    /\ f_call.backend.type = "str"
    /\ LET k == IF f_call.backend = StrV(KindChars("auto"))
                THEN autodetect_backend(f_call.conn, "visa")
                ELSE KindOf(f_call.backend.chars)
       IN  k # "raised" /\ k \notin f_registry

C18_ListingOmitsUnsupported ==
    f_pc = "done" /\ f_call.fn = "list_backend_resources"
    /\ f_call.backend = NoneV /\ f_res.status = "returned" =>
        /\ DOMAIN f_res.listed =
               {k \in f_registry : f_call.listing[k] # "none"}
        /\ \A k \in DOMAIN f_res.listed :
               f_res.listed[k] = f_call.listing[k] /\ f_res.listed[k] # "none"
        /\ "network" \notin DOMAIN f_res.listed

\* serial cannot list, pyusb finds nothing: pyusb is there with an empty
\* list, serial and network are not
C18_Witness ==
    /\ f_pc = "done" /\ f_call.fn = "list_backend_resources"
    /\ f_call.backend = NoneV /\ f_res.status = "returned"
    /\ {"serial", "pyusb"} \subseteq f_registry
    /\ f_call.listing["serial"] = "none"
    /\ f_call.listing["pyusb"] = "empty"
    /\ "pyusb" \in DOMAIN f_res.listed /\ f_res.listed["pyusb"] = "empty"
    /\ "serial" \notin DOMAIN f_res.listed

\* the backends whose read(size) compares the length read with the size asked
ChecksReadSize ==
    r_backend \in {"serial", "ft232"} \/ (r_backend = "pyusb" /\ r_check)

\* C19: read(size=N) on the serial and ft232 backends, and on the pyusb
\* backend with check_read_size set, returns exactly N bytes or raises the
\* backend's Error, never fewer than N bytes; on pyusb with check_read_size
\* unset, a shorter result that the transport gives is returned without error
C19_FixedSizeRead ==
    (r_pc = "done" /\ r_call.op = "read" /\ r_call.size # NoneT) =>
        /\ ChecksReadSize =>
              \/ r_res.status = "raised"
              \/ /\ r_res.status = "returned"
                 /\ Len(r_res.value.data) = r_call.size
        /\ (r_backend = "pyusb" /\ ~r_check /\ ~r_call.fails
              /\ Len(r_stream) < r_call.size) =>
              /\ r_res.status = "returned"
              /\ r_res.value.data = r_stream

\* a serial read of two bytes when one arrives raises
C19_Witness ==
    /\ r_pc = "done" /\ r_call.op = "read" /\ r_call.size = 2
    /\ r_backend = "serial" /\ Len(r_stream) = 1 /\ ~r_call.fails
    /\ r_res.status = "raised"

\* C20: every value a read, a readline or a read_multichar_term returns, on
\* every backend, has passed through the backend's datatype conversion: text
\* with datatype "str", bytes with "bytes", the transport's own result with
\* "auto"
C20_ReadsConverted ==
    (r_pc = "done" /\ r_res.status = "returned") =>
        /\ r_res.value.through
        /\ r_datatype = "str" => r_res.value.type = "str"
        /\ r_datatype = "bytes" => r_res.value.type = "bytes"
        /\ r_datatype = "auto" => r_res.value.type = RawBytes(<<>>).type

\* C21: close() on a backend that is already closed is a no-op on every
\* backend: no transport close or finalize is invoked, nothing is raised and
\* is_opened() stays false
C21_CloseOnClosedNoOp ==
    [][(~o_opened /\ o_call'.op = "close") =>
          /\ o_log' = <<>>
          /\ o_call'.status = "returned"
          /\ ~o_opened']_vars

\* the same for the backends whose close tests the opened state first
C21_GuardedClose ==
    [][(~o_opened /\ o_call'.op = "close"
          /\ o_backend \in {"serial", "ft232", "network"}) =>
          /\ o_log' = <<>>
          /\ o_call'.status = "returned"
          /\ ~o_opened']_vars

\* C22: every failure to open the transport during construction surfaces as
\* the backend's IBackendOpenError, never as another kind of error; the pyusb
\* case of fewer devices than index+1 and the network case of connection
\* parameters without a port included
C22_OpenFailureWrapped ==
    (x_pc = "done" /\ x_res.status = "raised" /\ x_res.stage = "open") =>
        x_res.error = "BackendOpenError"

\* the same where the transport library's own error is the cause
C22_NativeErrorWrapped ==
    (x_pc = "done" /\ x_fails /\ x_res.status = "raised"
        /\ x_res.stage = "open"
        /\ (x_call.cls = "network" => "port" \in DOMAIN x_res.conn)) =>
        x_res.error = "BackendOpenError"

\* the number of colons in an address
RECURSIVE Colons(_)
Colons(s) ==
    IF s = <<>> THEN 0
    ELSE (IF Head(s) = ":" THEN 1 ELSE 0) + Colons(Tail(s))

\* where the first colon of an address stands (past the end when none does)
RECURSIVE FirstColon(_, _)
FirstColon(s, i) ==
    IF i > Len(s) \/ s[i] = ":" THEN i ELSE FirstColon(s, i + 1)

\* the dict the constructor's conn argument stands for
SuppliedConn == ConnToDict("network", x_call.conn)

\* the digits after the colon read as a decimal number
RECURSIVE Decimal(_)
Decimal(text) ==
    IF text = <<>> THEN 0 ELSE 10 * Decimal(SubSeq(text, 1, Len(text) - 1)) + 1

\* C23: the network backend fails with a validation error, before any socket
\* is created, on an address with more than one colon; splits an address with
\* exactly one colon into the address and the integer port, which replaces a
\* port supplied separately; leaves address and port as supplied when the
\* address has no colon
C23_NetworkAddress ==
    (x_pc = "done" /\ x_call.cls = "network" /\ "addr" \in DOMAIN SuppliedConn) =>
        LET addr == SuppliedConn["addr"]
            c == FirstColon(addr, 1)
            port == SubSeq(addr, c + 1, Len(addr))
        IN  /\ Colons(addr) > 1 =>
                  /\ x_res.status = "raised" /\ x_res.error = "ValueError"
                  /\ x_res.log = <<>>
            /\ (Colons(addr) = 1 /\ port # <<>>
                   /\ \A i \in 1..Len(port) : port[i] = "1") =>
                  /\ x_res.error # "ValueError"
                  /\ x_res.conn["addr"] = SubSeq(addr, 1, c - 1)
                  /\ x_res.conn["port"] = Decimal(port)
            /\ Colons(addr) = 0 =>
                  /\ x_res.error # "ValueError"
                  /\ x_res.conn = SuppliedConn

\* "x:1" with port 80 supplied connects to x, port 1
C23_Witness ==
    /\ x_pc = "done" /\ x_call.cls = "network"
    /\ x_call.conn = SeqConn(<<<<"x", ":", "1">>, 80>>)
    /\ x_res.status = "returned"
    /\ x_res.conn["port"] = 1

\* where the entries of one kind stand in the log of a write
Positions(op) == {i \in 1..Len(w_log) : w_log[i].op = op}

\* C24: write on the serial and ft232 backends appends term_write to the data
\* exactly once and transmits the result in a single transport write; with
\* flush set the transport flush comes after the transmit and before any echo
\* read; read_echo_lines readline calls are then made when read_echo is set
\* and none when it is not
C24_WriteSequence ==
    (w_pc = "done") =>
        /\ Cardinality(Positions("instr.write")) = 1
        /\ \A i \in Positions("instr.write") :
              w_log[i].data.chars = w_call.data.chars \o w_term_write.chars
        /\ Cardinality(Positions("instr.flush")) = (IF w_call.flush THEN 1 ELSE 0)
        /\ \A f \in Positions("instr.flush") :
              /\ \A t \in Positions("instr.write") : t < f
              /\ \A r \in Positions("readline") : f < r
        /\ w_res = "returned" =>
              Cardinality(Positions("readline")) =
                  (IF w_call.read_echo THEN w_call.read_echo_lines ELSE 0)
        /\ ~w_call.read_echo => Positions("readline") = {}

\* a write with a terminator, a flush and two echo lines
C24_Witness ==
    /\ w_pc = "done" /\ w_res = "returned"
    /\ w_term_write.chars = CRLF /\ w_call.data.chars = <<"a">>
    /\ w_call.flush /\ w_call.read_echo /\ w_call.read_echo_lines = 2
    /\ Cardinality(Positions("readline")) = 2

\* C25: read() with size omitted on the serial and ft232 backends returns all
\* the bytes the transport holds, possibly none, and never raises a timeout
\* error, whatever error_on_timeout is and whatever read terminators are
\* configured
C25_ReadAllNeverTimesOut ==
    (r_pc = "done" /\ r_call.op = "read" /\ r_call.size = NoneT
        /\ r_backend \in {"serial", "ft232"} /\ ~r_call.fails) =>
        /\ r_res.status = "returned"
        /\ r_res.value.data = r_stream

\* more than a block of bytes drained with error_on_timeout set and a
\* terminator configured
C25_Witness ==
    /\ r_pc = "done" /\ r_call.op = "read" /\ r_call.size = NoneT
    /\ r_backend = "serial" /\ r_call.error_on_timeout /\ ~r_call.fails
    /\ r_term_read = <<LF>> /\ Len(r_stream) > SerialBlock
    /\ r_res.status = "returned" /\ r_res.value.data = r_stream

\* C26: on the visa backend with do_lock set, lock() acquires the session
\* lock once and returns and unlock() releases it once and returns; with
\* do_lock unset, lock(), unlock() and locking() do nothing and never raise
C26_VisaLocking ==
    (v_pc = "idle" /\ v_call.op \in {"lock", "unlock", "locking"}) =>
        /\ (v_call.op \in {"lock", "unlock"} \/ ~v_do_lock) =>
              v_call.status = "returned"
        /\ (v_do_lock /\ v_call.op = "lock") => v_call.made = <<"instr.lock">>
        /\ (v_do_lock /\ v_call.op = "unlock") => v_call.made = <<"instr.unlock">>
        /\ ~v_do_lock => v_call.made = <<>>

\* the half of it for do_lock unset
C26_NoLockNoOp ==
    (v_pc = "idle" /\ ~v_do_lock
        /\ v_call.op \in {"lock", "unlock", "locking"}) =>
        v_call.status = "returned" /\ v_call.made = <<>> /\ v_log = <<>>

\* C27: the cooldown table belongs to the instance: whatever setup_cooldown
\* calls are made on one instance, the values every other instance sees and
\* the class's _default_operation_cooldown stay as they were
C27_CooldownOwned ==
    [][(h_call'.op = "setup_cooldown") =>
          /\ Seen(h_heap', h_refs').class = Seen(h_heap, h_refs).class
          /\ \A j \in Instances \ {h_call'.inst} :
                Seen(h_heap', h_refs').inst[j] = Seen(h_heap, h_refs).inst[j]]_vars

\* one instance's table was updated in place and now differs from the
\* class's table, which another instance still sees
C27_Witness ==
    /\ h_call.op = "setup_cooldown" /\ h_call.inst = 1
    /\ h_refs[2] # NoRef
    /\ h_heap[h_refs[1]] = [k \in {"read"} |-> 0]
    /\ h_heap[h_refs[2]] = [k \in {"read"} |-> 1]
    /\ h_heap[ClassRef] = [k \in {"read"} |-> 1]

\* the table the last cooldown call read
TableRead == h_heap[h_refs[h_call.inst]]

\* C28: cooldown(kind) takes the table's entry for the kind when there is
\* one, else the default entry, else 0, and sleeps only when the value taken
\* is greater than 0; with the initial table {default: 0} no kind sleeps
C28_CooldownLookup ==
    (h_call.op = "cooldown") =>
        LET t == TableRead
            kind == h_call.kind
        IN  /\ kind \in DOMAIN t => h_call.slept.secs = t[kind]
            /\ (kind \notin DOMAIN t /\ "default" \in DOMAIN t) =>
                  h_call.slept.secs = t["default"]
            /\ (kind \notin DOMAIN t /\ "default" \notin DOMAIN t) =>
                  h_call.slept.secs = 0
            /\ h_call.slept.sleeps <=> h_call.slept.secs > 0
            /\ t = [k \in {"default"} |-> 0] => ~h_call.slept.sleeps

\* a kind with its own entry of 0 beside a default of 1 does not sleep
C28_Witness ==
    /\ h_call.op = "cooldown" /\ h_call.kind = "read"
    /\ TableRead = [k \in {"default", "read"} |-> IF k = "read" THEN 0 ELSE 1]
    /\ ~h_call.slept.sleeps

\* the general test on its own: the accumulated result ends with a terminator
SuffixSeen(terms, result) == \E i \in 1..Len(terms) : EndsWith(result, terms[i])

\* _read_terms of the serial, ft232 and pyusb backends with the general test
\* in place of the fast path
RECURSIVE SuffixReadLoop(_, _, _, _, _)
SuffixReadLoop(backend, terms, stream, result, error_on_timeout) ==
    LET n == IF terms # <<>> THEN 1
             ELSE IF backend = "pyusb" THEN UsbBlock ELSE SerialBlock
        c == TakeN(stream, n)
        rest == DropN(stream, n)
        res == result \o c
    IN  IF c = <<>>
        THEN ReadOutcome(error_on_timeout /\ terms # <<>>, res, rest)
        ELSE IF (backend = "pyusb" /\ terms = <<>>) \/ SuffixSeen(terms, res)
             THEN ReadOutcome(FALSE, res, rest)
             ELSE SuffixReadLoop(backend, terms, rest, res, error_on_timeout)

\* C29: when every configured terminator is one byte long, a pass of
\* _read_terms (which then tests membership of the byte just read) ends as
\* it would with the suffix test: the same bytes consumed, the same
\* accumulated result, the same timeout error
C29_FastPathAgrees ==
    [][(/\ l_pc = "loop"
        /\ l_backend # "network"
        /\ SingleCharTerms(l_call.terms)) =>
          LET g == SuffixReadLoop(l_backend, l_call.terms, l_stream, <<>>,
                                  l_call.error_on_timeout)
              stripped == IF l_call.remove_term /\ l_call.terms # <<>>
                          THEN remove_longest_term(g.res, l_call.terms)
                          ELSE g.res
          IN  /\ l_stream' = g.rest
              /\ (l_pc' = "raised") <=> g.raised
              /\ l_pc' = "returned" => l_result' = stripped]_vars

\* a read with the terminators CR and LF stopped at one of them and left
\* bytes on the transport
C29_Witness ==
    /\ l_pc = "returned" /\ l_backend \in {"serial", "pyusb"}
    /\ l_call.terms = <<CR, LF>> /\ ~l_call.remove_term
    /\ l_result # <<>> /\ l_stream # <<>>

\* the lengths of the prefixes of a stream that end with a terminator
TermPrefixes(stream, terms) ==
    {k \in 0..Len(stream) :
        \E i \in 1..Len(terms) : EndsWith(SubSeq(stream, 1, k), terms[i])}

\* the number of bytes the last call took from the transport
Consumed == Len(q_call.before) - Len(q_stream)

\* the results so far, joined, are the bytes taken from the transport, and
\* the rest of the pending bytes is still there
ResultsAreConsumed == Concat(q_results) \o q_stream = q_pending

\* C30 as stated: a readline with a non-empty terminator list takes from the
\* transport exactly the shortest prefix of the pending bytes that ends with
\* a configured terminator; and after readline(remove_term=False,
\* skip_empty=False) calls the results joined are the bytes taken, the rest
\* staying on the transport
C30_ShortestPrefix ==
    (q_call.op = "readline") =>
        /\ Consumed \in TermPrefixes(q_call.before, q_term_read)
        /\ \A k \in TermPrefixes(q_call.before, q_term_read) : Consumed <= k
        /\ q_call.plain => ResultsAreConsumed

\* C30, amended: a readline that makes one pass (skip_empty or remove_term
\* off) takes exactly the shortest non-empty prefix that ends with a
\* configured terminator and returns; when the pending bytes hold no such
\* prefix it takes them all and raises exactly when error_on_timeout is set;
\* a readline that skips empty lines stops after a terminator or takes all;
\* after readline(remove_term=False, skip_empty=False) calls that returned,
\* the results joined are the bytes taken and the rest stays on the transport
C30_ShortestNonEmptyPrefix ==
    (q_call.op = "readline") =>
        LET ends == TermPrefixes(q_call.before, q_term_read) \ {0}
        IN  /\ ~(q_call.skip_empty /\ q_call.remove_term) =>
                  IF ends # {}
                  THEN /\ q_call.status = "returned"
                       /\ Consumed \in ends
                       /\ \A k \in ends : Consumed <= k
                  ELSE /\ Consumed = Len(q_call.before)
                       /\ (q_call.status = "raised") <=> q_call.error_on_timeout
            /\ Consumed \in ends \cup {Len(q_call.before)}
            /\ q_stream = SubSeq(q_call.before, Consumed + 1, Len(q_call.before))
            /\ (q_call.plain /\ q_call.status = "returned") => ResultsAreConsumed

\* two plain readline calls returned different lines and left bytes behind
C30_Witness ==
    /\ q_call.op = "readline" /\ q_call.plain /\ q_call.status = "returned"
    /\ q_term_read = <<CR, LF>>
    /\ Len(q_results) = 2 /\ q_results[1] # q_results[2]
    /\ q_stream # <<>>

\* C31: remove_longest_term returns msg as it is when no element of terms
\* is a suffix of msg (an empty list included), and what it removes is
\* always a configured terminator at the end of msg
C31_UnchangedWithoutTerm ==
    (t_pc = "done") =>
        /\ (\A i \in 1..Len(t_terms) : ~EndsWith(t_msg, t_terms[i])) =>
              t_res = t_msg
        /\ \/ t_res = t_msg
           \/ \E i \in 1..Len(t_terms) : t_res \o t_terms[i] = t_msg

\* what C31 leaves when a terminator is found: the bytes taken off the end
\* are those of a configured terminator
C31_RemovesTerminatorOnly ==
    (t_pc = "done" /\ EndingTerms(t_msg, t_terms) # {}) =>
        \E i \in 1..Len(t_terms) : t_res \o t_terms[i] = t_msg

\* C32: every readline call on the serial, ft232 and pyusb backends ends,
\* returning or raising, once the transport has no more data and its reads
\* time out, whatever remove_term, skip_empty and error_on_timeout are
C32_ReadlineTerminates ==
    (l_pc = "loop" /\ l_call.op = "readline" /\ l_backend # "network")
        ~> (l_pc \in {"returned", "raised"})

\* what C32 leaves: a readline that raises on timeout, with a terminator
\* configured, ends
C32_RaisingReadlineTerminates ==
    (/\ l_pc = "loop" /\ l_call.op = "readline" /\ l_backend # "network"
     /\ l_call.error_on_timeout /\ l_call.terms # <<>>)
        ~> (l_pc \in {"returned", "raised"})

\* and so does a readline that does not skip empty lines
C32_PlainReadlineTerminates ==
    (/\ l_pc = "loop" /\ l_call.op = "readline" /\ l_backend # "network"
     /\ ~(l_call.skip_empty /\ l_call.remove_term))
        ~> (l_pc \in {"returned", "raised"})

\* C33: a serial backend built with connect_on_operation=False: whatever
\* open() and close() calls follow, the port is opened only when it is
\* closed and closed only when it is open, and is_opened() is true exactly
\* when the port is open
C33_OpenCloseAlternate ==
    [][~s_coo =>
          /\ s_ev' = "open" => (~s_port /\ s_port')
          /\ s_ev' = "close" => (s_port /\ ~s_port')
          /\ s_ev' \notin {"open", "close"} => s_port' = s_port
          /\ s_opened' <=> s_port']_vars

\* the port was opened again by open() after a close()
C33_Witness ==
    /\ ~s_coo /\ s_ev = "open" /\ s_port /\ s_opened

\* C34: a serial backend built with connect_on_operation=True: once close()
\* has been called and until open() is called again, no read, readline or
\* write opens the port, so none can send data through it
C34_ClosedStaysSilent ==
    [][(s_coo /\ ~s_opened /\ ~s_opened') =>
          /\ s_ev' # "open"
          /\ ~s_port']_vars

\* C35: every transport open the serial backend attempts, at construction,
\* in open() after close() and on entry of a connect-on-operation scope, is
\* tried open_retry_times times before the failure is reported, so a port
\* that refuses fewer attempts than that ends up open
C35_EveryOpenRetried ==
    (a_pc \in {"opened", "failed"}) =>
        /\ a_pc = "failed" => a_attempts = a_retry
        /\ a_failures < a_retry => a_pc = "opened"

\* what C35 leaves: the opens of open() and of the scope entry are retried
C35_DoOpenRetried ==
    (a_pc \in {"opened", "failed"} /\ a_site # "init") =>
        /\ a_pc = "failed" => a_attempts = a_retry
        /\ a_failures < a_retry => a_pc = "opened"

\* C36: on every backend set_timeout(t) with t a number not below 0, 0
\* included, followed by get_timeout() gives t back, whatever unit the
\* transport keeps
C36_TimeoutRoundTrip ==
    (to_last.op = "set_timeout" /\ to_last.timeout # NoneT) =>
        GetTimeout(to_backend, to_stored) = to_last.timeout

\* what C36 leaves: the round trip holds for timeouts of a millisecond or
\* more, and for every timeout on the backends other than ft232
C36_RoundTripFromOneMs ==
    (/\ to_last.op = "set_timeout" /\ to_last.timeout # NoneT
     /\ (to_backend # "ft232" \/ to_last.timeout >= 1)) =>
        GetTimeout(to_backend, to_stored) = to_last.timeout

\* the dict the conn argument stands for, and the class's defaults
GivenParams == ConnToDict(p_cls, p_arg)
DefaultParams == ConnToDict(p_cls, DefaultConn(p_cls))

\* the argument names no address that has to be split or refused
PlainAddr ==
    p_cls = "network" /\ "addr" \in DOMAIN GivenParams =>
        Colons(GivenParams["addr"]) = 0

\* C37: serial, ft232, network and pyusb backends built from connection
\* parameters that leave some fields out store a mapping with every field
\* of the class's field list: the value given where one was, the class's
\* default otherwise (a network backend built from a bare address gets the
\* default port)
C37_DefaultsFilledIn ==
    (p_pc = "done" /\ ~p_fails /\ PlainAddr) =>
        /\ p_res.status = "returned"
        /\ DOMAIN p_res.conn = DOMAIN DefaultParams \cup DOMAIN GivenParams
        /\ \A k \in DOMAIN p_res.conn :
              p_res.conn[k] = IF k \in DOMAIN GivenParams
                              THEN GivenParams[k] ELSE DefaultParams[k]

\* what C37 leaves: the serial and pyusb backends store the given values
\* over the defaults, and ft232 does for every field that was given
C37_CombinedBackends ==
    (p_pc = "done" /\ ~p_fails /\ p_cls # "network") =>
        /\ p_res.status = "returned"
        /\ DOMAIN p_res.conn = DOMAIN DefaultParams \cup DOMAIN GivenParams
        /\ \A k \in DOMAIN p_res.conn :
              (p_cls = "ft232" => k \in DOMAIN GivenParams) =>
                  p_res.conn[k] = IF k \in DOMAIN GivenParams
                                  THEN GivenParams[k] ELSE DefaultParams[k]

\* C38: no constructor changes the conn object the caller passes: a dict
\* has the same keys and values after the call as before, whether the
\* construction succeeds or fails
C38_ArgumentUntouched ==
    (p_pc = "done") => p_obj = p_arg

\* what C38 leaves: the backends that combine conn with their defaults, and
\* the network backend given anything but a dict, leave the argument alone
C38_CopiedArgumentUntouched ==
    (p_pc = "done" /\ (p_cls # "network" \/ p_arg.form # "dict")) =>
        p_obj = p_arg

DetectKinds == {"network", "serial", "pyusb"}

\* C39: autodetect_backend is total: for a string, a dict, or a tuple or
\* list of any length, the empty one included, it returns "network",
\* "serial", "pyusb" or the default given, and never raises
C39_AutodetectTotal ==
    (d_pc = "done" /\ d_conn.type \in {"str", "seq", "dict"}) =>
        d_res \in DetectKinds \cup {d_default}

\* what C39 leaves: a string, a dict, or a tuple or list with at least one
\* element gives one of the three kinds or the default
C39_TotalOnNonEmpty ==
    (d_pc = "done" /\ d_conn.type \in {"str", "seq", "dict"}
        /\ d_conn # SeqV(<<>>)) =>
        d_res \in DetectKinds \cup {d_default}

\* the moves of one call: from the position read to the first position
\* written, then between the positions written
MoveStarts == <<fw_call.cur>> \o fw_written

\* C40: with respect_bound set, on a wheel of 6 or 12 positions, for every
\* current position and target in 1..pcount, set_position writes positions
\* of 1..pcount ending with the target, and every single move is shorter
\* than pcount // 2
C40_MovesStayShort ==
    (fw_call.op = "set_position" /\ fw_respect_bound) =>
        /\ fw_written # <<>>
        /\ fw_written[Len(fw_written)] = fw_call.pos
        /\ \A i \in 1..Len(fw_written) :
              /\ fw_written[i] \in 1..fw_pcount
              /\ Abs(fw_written[i] - MoveStarts[i]) < fw_pcount \div 2

\* a call whose target is on the far side of the wheel, made in three moves
C40_Witness ==
    /\ fw_call.op = "set_position" /\ fw_respect_bound
    /\ fw_pcount \div 2 <= Abs(fw_call.pos - fw_call.cur)
    /\ Len(fw_written) > 1
    /\ fw_call.cur = fw_pcount /\ fw_call.pos = 1

====
